---- MODULE Spec2Model ----
(***************************************************************************)
(* Model of the control core of TimeArtifacts' backend:                    *)
(*   - EventManager (src/backend/src/core/EventManager.cpp): the           *)
(*     publish/subscribe dispatcher, held in the record variable em;       *)
(*   - StateManager (src/backend/src/core/StateManager.cpp): the state     *)
(*     controller, held in the record variable sm.                         *)
(* Each public method is one action.  A method that runs user code         *)
(* (subscriber callbacks, GameState hooks) is computed by operators over   *)
(* the record, so that calls made by the user code back into the object    *)
(* are part of the same action.                                            *)
(***************************************************************************)
EXTENDS Integers, Sequences, FiniteSets, TLC

VARIABLES em, sm

vars == <<em, sm>>

(***************************************************************************)
(* Bounds of the model.                                                    *)
(***************************************************************************)
\* largest queue capacity given to the EventManager constructor
MaxCapacity == 2
\* events created (by publish calls and by callbacks) in one behaviour
MaxEvents == 2
\* subscribers registered at one time, over all event types, in Spec
MaxSubs == 2
\* ids produced by generateSubscriberId in Spec
MaxGenerated == 1
\* GameState objects constructed in one behaviour of StateSpec
MaxStates == 4
\* subscribers registered for the one event type of SortSpec
MaxSortSubs == 17
\* subscribers of SortSpec that are given a non-default priority
MaxPrioritised == 1
\* ThreadSpec: threads, calls made by each thread, events constructed,
\* Subscriber objects constructed
MaxThreads == 2
MaxCalls == 2
MaxThreadEvents == 3
MaxThreadSubs == 2
\* entries of the allow-list of event types
MaxFilters == 2

(***************************************************************************)
(* Inputs.                                                                 *)
(***************************************************************************)
EventTypes == {"A", "B"}

\* Subscriber ids are pairs <<base, n>>: <<b, 0>> is the caller-chosen
\* string b, <<b, n>> with n > 0 is the string b_n.
NoId == <<"", 0>>
ExplicitIds == {<<"UI", 0>>, <<"Audio", 0>>}

\* Subscriber::priority default argument
DefaultPriority == 5
Priorities == {1, 3}

\* What a subscriber's callback does with the dispatcher when invoked:
\*   "noop"    nothing
\*   "process" calls processEvents(FrameBudget)
\*   "publish" calls publish with a new event of the type it received
Callbacks == {"noop", "process", "publish"}

\* The callback each subscribing component of Spec registers: the UI only
\* observes, the audio system drains the queue from its callback, and an
\* anonymous subscriber (generated id) publishes a follow-up event.
CallbackOf(id) ==
    IF id = <<"UI", 0>> THEN "noop"
    ELSE IF id = <<"Audio", 0>> THEN "process"
    ELSE "publish"

\* GameEngine::update's per-frame budget: processEvents(50)
FrameBudget == 50

NullEvent == [type |-> "", uid |-> 0]

(***************************************************************************)
(* std::sort as libstdc++ implements it (introsort, bits/stl_algo.h), on   *)
(* a sequence v with the comparator of sortSubscribersByPriority.          *)
(* Positions are 1-based; a range is first .. last-1.  When the depth      *)
(* limit 2*lg(n) is used up the range is sorted by heapsort                *)
(* (bits/stl_heap.h); heap indices are offsets from first, as in the code. *)
(***************************************************************************)
S_threshold == 16

comp(a, b) == a.priority < b.priority

Swap(v, i, j) == [v EXCEPT ![i] = v[j], ![j] = v[i]]

RECURSIVE UnguardedLinearInsert(_, _, _)
UnguardedLinearInsert(v, last, val) ==
    IF comp(val, v[last - 1])
    THEN UnguardedLinearInsert([v EXCEPT ![last] = v[last - 1]], last - 1, val)
    ELSE [v EXCEPT ![last] = val]

\* std::move_backward(first, i, i + 1); *first = val
MoveToFront(v, first, i) ==
    SubSeq(v, 1, first - 1) \o <<v[i]>> \o SubSeq(v, first, i - 1)
        \o SubSeq(v, i + 1, Len(v))

RECURSIVE InsertionLoop(_, _, _, _)
InsertionLoop(v, first, i, last) ==
    IF i >= last THEN v
    ELSE IF comp(v[i], v[first])
         THEN InsertionLoop(MoveToFront(v, first, i), first, i + 1, last)
         ELSE InsertionLoop(UnguardedLinearInsert(v, i, v[i]), first, i + 1, last)

InsertionSort(v, first, last) ==
    IF first = last THEN v ELSE InsertionLoop(v, first, first + 1, last)

RECURSIVE UnguardedInsertionSort(_, _, _)
UnguardedInsertionSort(v, i, last) ==
    IF i >= last THEN v
    ELSE UnguardedInsertionSort(UnguardedLinearInsert(v, i, v[i]), i + 1, last)

FinalInsertionSort(v, first, last) ==
    IF last - first > S_threshold
    THEN UnguardedInsertionSort(InsertionSort(v, first, first + S_threshold),
                                first + S_threshold, last)
    ELSE InsertionSort(v, first, last)

MoveMedianToFirst(v, result, a, b, c) ==
    IF comp(v[a], v[b])
    THEN IF comp(v[b], v[c]) THEN Swap(v, result, b)
         ELSE IF comp(v[a], v[c]) THEN Swap(v, result, c)
         ELSE Swap(v, result, a)
    ELSE IF comp(v[a], v[c]) THEN Swap(v, result, a)
         ELSE IF comp(v[b], v[c]) THEN Swap(v, result, c)
         ELSE Swap(v, result, b)

RECURSIVE ScanUp(_, _, _)
ScanUp(v, first, pivot) ==
    IF comp(v[first], v[pivot]) THEN ScanUp(v, first + 1, pivot) ELSE first

RECURSIVE ScanDown(_, _, _)
ScanDown(v, last, pivot) ==
    IF comp(v[pivot], v[last]) THEN ScanDown(v, last - 1, pivot) ELSE last

\* returns <<v, cut>>
RECURSIVE UnguardedPartition(_, _, _, _)
UnguardedPartition(v, first, last, pivot) ==
    LET f == ScanUp(v, first, pivot)
        l == ScanDown(v, last - 1, pivot)
    IN  IF ~(f < l) THEN <<v, f>>
        ELSE UnguardedPartition(Swap(v, f, l), f + 1, l, pivot)

UnguardedPartitionPivot(v, first, last) ==
    LET mid == first + ((last - first) \div 2)
    IN  UnguardedPartition(MoveMedianToFirst(v, first, first + 1, mid, last - 1),
                           first + 1, last, first)

\* std::__lg: the position of the highest set bit
RECURSIVE Lg(_)
Lg(n) == IF n <= 1 THEN 0 ELSE 1 + Lg(n \div 2)

\* __push_heap: value moves up from the hole while its parent is smaller
RECURSIVE PushHeap(_, _, _, _, _)
PushHeap(v, first, holeIndex, topIndex, value) ==
    LET parent == (holeIndex - 1) \div 2
    IN  IF holeIndex > topIndex /\ comp(v[first + parent], value)
        THEN PushHeap([v EXCEPT ![first + holeIndex] = v[first + parent]],
                      first, parent, topIndex, value)
        ELSE [v EXCEPT ![first + holeIndex] = value]

\* the first loop of __adjust_heap: the hole moves down to the larger child;
\* returns <<v, holeIndex>>
RECURSIVE SiftHole(_, _, _, _)
SiftHole(v, first, holeIndex, len) ==
    IF holeIndex < (len - 1) \div 2
    THEN LET right == 2 * (holeIndex + 1)
             secondChild == IF comp(v[first + right], v[first + right - 1])
                            THEN right - 1
                            ELSE right
         IN  SiftHole([v EXCEPT ![first + holeIndex] = v[first + secondChild]],
                      first, secondChild, len)
    ELSE <<v, holeIndex>>

\* __adjust_heap
AdjustHeap(v, first, holeIndex, len, value) ==
    LET sifted == SiftHole(v, first, holeIndex, len)
        w == sifted[1]
        hole == sifted[2]
    IN  IF len % 2 = 0 /\ hole = (len - 2) \div 2
        THEN LET secondChild == 2 * (hole + 1)
             IN  PushHeap([w EXCEPT ![first + hole] = w[first + secondChild - 1]],
                          first, secondChild - 1, holeIndex, value)
        ELSE PushHeap(w, first, hole, holeIndex, value)

\* __pop_heap: *result = *first, the old *result goes into the heap
PopHeap(v, first, last, result) ==
    AdjustHeap([v EXCEPT ![result] = v[first]], first, 0, last - first, v[result])

\* __make_heap, from the given parent down to 0
RECURSIVE MakeHeapFrom(_, _, _, _)
MakeHeapFrom(v, first, len, parent) ==
    LET w == AdjustHeap(v, first, parent, len, v[first + parent])
    IN  IF parent = 0 THEN w ELSE MakeHeapFrom(w, first, len, parent - 1)

MakeHeap(v, first, last) ==
    IF last - first < 2 THEN v
    ELSE MakeHeapFrom(v, first, last - first, (last - first - 2) \div 2)

\* __heap_select: the loop over middle .. last-1
RECURSIVE HeapSelectLoop(_, _, _, _, _)
HeapSelectLoop(v, first, middle, i, last) ==
    IF i >= last THEN v
    ELSE HeapSelectLoop(IF comp(v[i], v[first]) THEN PopHeap(v, first, middle, i) ELSE v,
                        first, middle, i + 1, last)

RECURSIVE SortHeap(_, _, _)
SortHeap(v, first, last) ==
    IF last - first > 1
    THEN SortHeap(PopHeap(v, first, last - 1, last - 1), first, last - 1)
    ELSE v

\* __partial_sort: __heap_select, then __sort_heap
PartialSort(v, first, middle, last) ==
    SortHeap(HeapSelectLoop(MakeHeap(v, first, middle), first, middle, middle, last),
             first, middle)

RECURSIVE IntrosortLoop(_, _, _, _)
IntrosortLoop(v, first, last, depth_limit) ==
    IF last - first > S_threshold
    THEN IF depth_limit = 0 THEN PartialSort(v, first, last, last)
         ELSE LET p == UnguardedPartitionPivot(v, first, last)
              IN  IntrosortLoop(IntrosortLoop(p[1], p[2], last, depth_limit - 1),
                                first, p[2], depth_limit - 1)
    ELSE v

StdSort(v) ==
    IF v = <<>> THEN v
    ELSE FinalInsertionSort(IntrosortLoop(v, 1, Len(v) + 1, Lg(Len(v)) * 2),
                            1, Len(v) + 1)

\* a registry that keeps its lists in the order of registration
Unsorted(subs) == subs

sortSubscribersByPriority(subs) == StdSort(subs)


(***************************************************************************)
(* EventManager.  em is the object:                                        *)
(*   subscribers       std::map<string, vector<shared_ptr<Subscriber>>>    *)
(*   eventQueue        std::queue<QueuedEvent>                             *)
(*   eventCounts       std::map<string, int>                               *)
(*   eventFilters      std::vector<string>                                 *)
(*   processingEvents  bool                                                *)
(*   maxQueueSize      int                                                 *)
(*   counter           the static counter of generateSubscriberId          *)
(* and what an observer of one call sees of it:                            *)
(*   created  number of Event objects constructed so far (uid of the last) *)
(*   op, arg  the last public method called and its integer argument (for  *)
(*            a publish call: the uid of the event, 0 for a null event)    *)
(*   ret      the value the last processEvents call returned; for an       *)
(*            unsubscribe call 1 for true and 0 for false; for a subscribe *)
(*            call 1 when it found the id in the list and replaced the     *)
(*            entry, 0 when it appended                                    *)
(*   taken    the uids of the events the last call took off the queue to   *)
(*            dispatch, in order                                           *)
(*   calls    the callback invocations made during the last call, in       *)
(*            order; nested is what a processEvents call made by that      *)
(*            callback returned (-1: it made none)                         *)
(*   raised   the exception in flight: "" for none, "std" for an object of  *)
(*            a class derived from std::exception, "other" for any other   *)
(*            thrown object; after a call it is what reached the caller    *)
(*   observed what a bystander counted since the last resetStatistics: per  *)
(*            type, the non-null events handed to publishImmediate and the *)
(*            events processEvents took off the queue                      *)
(*   registered  the <<event type, subscriber id>> pairs the driver holds  *)
(*            a registration for: those its subscribe calls returned an id *)
(*            for and that no unsubscribe/unsubscribeAll call of it named  *)
(*            since                                                        *)
(***************************************************************************)
EmptyMap == [x \in {} |-> 0]

MapPut(m, k, val) == (k :> val) @@ m

MapErase(m, k) == [x \in (DOMAIN m) \ {k} |-> m[x]]

MapGet(m, k, default) == IF k \in DOMAIN m THEN m[k] ELSE default

EventManagerInit(maxQueue) ==
    [subscribers |-> EmptyMap,
     eventQueue |-> <<>>,
     eventCounts |-> EmptyMap,
     eventFilters |-> <<>>,
     processingEvents |-> FALSE,
     maxQueueSize |-> maxQueue,
     counter |-> 0,
     created |-> 0,
     op |-> "new",
     arg |-> 0,
     ret |-> 0,
     taken |-> <<>>,
     calls |-> <<>>,
     raised |-> "",
     observed |-> EmptyMap,
     registered |-> {}]

\* entry of a public method called from outside any callback
Enter(e, name, a) ==
    [e EXCEPT !.op = name, !.arg = a, !.ret = 0, !.taken = <<>>, !.calls = <<>>,
              !.raised = ""]

Subscriber(cb, id, prio) ==
    [callback |-> cb, subscriberId |-> id, priority |-> prio, active |-> TRUE]

generateSubscriberId(base, counter) ==
    <<IF base = "" THEN "Subscriber" ELSE base, counter + 1>>

\* std::find_if over the list: the first position holding the id, 0 for end()
FindId(list, id) ==
    IF \E i \in 1..Len(list) : list[i].subscriberId = id
    THEN CHOOSE i \in 1..Len(list) :
            /\ list[i].subscriberId = id
            /\ \A j \in 1..(i - 1) : list[j].subscriberId # id
    ELSE 0

\* std::remove_if + erase: the entries whose id differs, in order
RECURSIVE RemoveId(_, _)
RemoveId(list, id) ==
    IF list = <<>> THEN <<>>
    ELSE IF Head(list).subscriberId = id THEN RemoveId(Tail(list), id)
    ELSE <<Head(list)>> \o RemoveId(Tail(list), id)

\* a subscribe that appends without looking for the id in the list
subscribeAppend(e, eventType, cb, subscriberId, priority) ==
    LET generated == subscriberId = NoId
        finalId == IF generated THEN generateSubscriberId(eventType, e.counter)
                   ELSE subscriberId
        eventSubscribers == MapGet(e.subscribers, eventType, <<>>)
        updated == Append(eventSubscribers, Subscriber(cb, finalId, priority))
    IN  [e EXCEPT !.subscribers = MapPut(@, eventType, sortSubscribersByPriority(updated)),
                  !.counter = IF generated THEN @ + 1 ELSE @]

\* subscribe with a non-null callback; subscriberId = NoId is the empty string
subscribe(e, eventType, cb, subscriberId, priority) ==
    LET generated == subscriberId = NoId
        finalId == IF generated THEN generateSubscriberId(eventType, e.counter)
                   ELSE subscriberId
        subscriber == Subscriber(cb, finalId, priority)
        eventSubscribers == MapGet(e.subscribers, eventType, <<>>)
        it == FindId(eventSubscribers, finalId)
        updated == IF it # 0 THEN [eventSubscribers EXCEPT ![it] = subscriber]
                   ELSE Append(eventSubscribers, subscriber)
    IN  [e EXCEPT !.subscribers = MapPut(@, eventType, sortSubscribersByPriority(updated)),
                  !.counter = IF generated THEN @ + 1 ELSE @]

\* an unsubscribe that keeps the entry of a type whose list became empty
unsubscribeKeepEntry(e, eventType, subscriberId) ==
    IF eventType \notin DOMAIN e.subscribers THEN <<e, FALSE>>
    ELSE LET kept == RemoveId(e.subscribers[eventType], subscriberId)
         IN  <<[e EXCEPT !.subscribers = MapPut(@, eventType, kept)],
               Len(kept) # Len(e.subscribers[eventType])>>

\* returns <<e, removed>>
unsubscribe(e, eventType, subscriberId) ==
    IF eventType \notin DOMAIN e.subscribers THEN <<e, FALSE>>
    ELSE LET kept == RemoveId(e.subscribers[eventType], subscriberId)
             removed == Len(kept) # Len(e.subscribers[eventType])
         IN  <<[e EXCEPT !.subscribers = IF kept = <<>> THEN MapErase(@, eventType)
                                         ELSE MapPut(@, eventType, kept)],
               removed>>

hasSubscribers(e, eventType) ==
    eventType \in DOMAIN e.subscribers /\ e.subscribers[eventType] # <<>>

unsubscribeAll(e, subscriberId) ==
    LET kept(t) == RemoveId(e.subscribers[t], subscriberId)
        left == {t \in DOMAIN e.subscribers : kept(t) # <<>>}
    IN  [e EXCEPT !.subscribers = [t \in left |-> kept(t)]]

\* a setSubscriberActive that stops at the first type whose list holds the id
setSubscriberActiveOnce(e, subscriberId, active) ==
    LET holding == {t \in DOMAIN e.subscribers : FindId(e.subscribers[t], subscriberId) # 0}
        first == CHOOSE t \in holding : \A u \in holding : u = t \/ t = "A"
    IN  IF holding = {} THEN e
        ELSE [e EXCEPT !.subscribers[first] =
                 [i \in 1..Len(@) |->
                     IF @[i].subscriberId = subscriberId
                     THEN [@[i] EXCEPT !.active = active]
                     ELSE @[i]]]

setSubscriberActive(e, subscriberId, active) ==
    [e EXCEPT !.subscribers =
        [t \in DOMAIN @ |->
            [i \in 1..Len(@[t]) |->
                IF @[t][i].subscriberId = subscriberId
                THEN [@[t][i] EXCEPT !.active = active]
                ELSE @[t][i]]]]

\* a filter that lets every type pass
passesFilterAny(eventFilters, eventType) == TRUE

passesFilter(eventFilters, eventType) ==
    IF eventFilters = <<>> THEN TRUE
    ELSE \E i \in 1..Len(eventFilters) : eventFilters[i] = eventType

\* a publish that lets the queue hold one event more than maxQueueSize
publishOverCapacity(e, event) ==
    IF event = NullEvent THEN e
    ELSE IF Len(e.eventQueue) > e.maxQueueSize THEN e
    ELSE [e EXCEPT !.eventQueue = Append(@, event)]

\* publish: a null event and an event that finds the queue full are dropped
publish(e, event) ==
    IF event = NullEvent THEN e
    ELSE IF Len(e.eventQueue) >= e.maxQueueSize THEN e
    ELSE [e EXCEPT !.eventQueue = Append(@, event)]

\* a count of the events that reach a subscriber list only
CountEventDelivered(e, type) ==
    IF passesFilter(e.eventFilters, type) /\ type \in DOMAIN e.subscribers
    THEN [e EXCEPT !.eventCounts = MapPut(@, type, MapGet(@, type, 0) + 1)]
    ELSE e

CountEvent(e, type) ==
    [e EXCEPT !.eventCounts = MapPut(@, type, MapGet(@, type, 0) + 1)]

RECURSIVE processEvents(_, _)
RECURSIVE ProcessLoop(_, _, _)
RECURSIVE dispatchEvent(_, _)
RECURSIVE Deliver(_, _, _, _)
RECURSIVE InvokeCallback(_, _, _)

\* subscriber->callback(event): the call is recorded, then the callback acts
InvokeCallback(e, subscriber, event) ==
    LET n == Len(e.calls) + 1
        called == [e EXCEPT !.calls = Append(@, [subscriberId |-> subscriber.subscriberId,
                                                 priority |-> subscriber.priority,
                                                 callback |-> subscriber.callback,
                                                 uid |-> event.uid,
                                                 nested |-> -1])]
    IN  CASE subscriber.callback = "process" ->
                LET r == processEvents(called, FrameBudget)
                IN  [r[1] EXCEPT !.calls[n].nested = r[2]]
          [] subscriber.callback = "throw" -> [called EXCEPT !.raised = "std"]
          [] subscriber.callback = "throwOther" -> [called EXCEPT !.raised = "other"]
          [] subscriber.callback = "publish" ->
                IF called.created < MaxEvents
                THEN publish([called EXCEPT !.created = @ + 1],
                             [type |-> event.type, uid |-> called.created + 1])
                ELSE called
          [] OTHER -> called

\* the loop over the copied subscriber list, from position i on; the model's
\* callbacks do not change active flags, so the flag of the copy is the
\* flag of the shared Subscriber object.  The handler of the loop body
\* catches const std::exception&: any other thrown object leaves the loop.
Deliver(e, eventSubscribers, i, event) ==
    IF i > Len(eventSubscribers) THEN e
    ELSE IF ~eventSubscribers[i].active
         THEN Deliver(e, eventSubscribers, i + 1, event)
         ELSE LET r == InvokeCallback(e, eventSubscribers[i], event)
              IN  CASE r.raised = "" -> Deliver(r, eventSubscribers, i + 1, event)
                    [] r.raised = "std" ->
                         Deliver([r EXCEPT !.raised = ""], eventSubscribers, i + 1, event)
                    [] OTHER -> r

dispatchEvent(e, event) ==
    IF ~passesFilter(e.eventFilters, event.type) THEN e
    ELSE Deliver(e, MapGet(e.subscribers, event.type, <<>>), 1, event)

\* a loop that takes the newest event of the queue instead of the oldest
RECURSIVE ProcessLoopNewestFirst(_, _, _)
ProcessLoopNewestFirst(e, maxEvents, processedCount) ==
    IF processedCount = maxEvents THEN <<e, processedCount>>
    ELSE IF e.eventQueue = <<>> THEN <<e, processedCount>>
    ELSE LET event == e.eventQueue[Len(e.eventQueue)]
             popped == [e EXCEPT !.eventQueue = SubSeq(@, 1, Len(@) - 1),
                                 !.taken = Append(@, event.uid)]
         IN  ProcessLoopNewestFirst(dispatchEvent(CountEvent(popped, event.type), event),
                                    maxEvents, processedCount + 1)

\* a loop that stops one event after the budget is used up
RECURSIVE ProcessLoopOverBudget(_, _, _)
ProcessLoopOverBudget(e, maxEvents, processedCount) ==
    IF processedCount = maxEvents + 1 THEN <<e, processedCount>>
    ELSE IF e.eventQueue = <<>> THEN <<e, processedCount>>
    ELSE LET event == Head(e.eventQueue)
             popped == [e EXCEPT !.eventQueue = Tail(@), !.taken = Append(@, event.uid)]
         IN  ProcessLoopOverBudget(dispatchEvent(CountEvent(popped, event.type), event),
                                   maxEvents, processedCount + 1)

\* the while loop of processEvents; returns <<e, processedCount>>.  An
\* exception that leaves dispatchEvent leaves the loop.
ProcessLoop(e, maxEvents, processedCount) ==
    IF processedCount = maxEvents THEN <<e, processedCount>>
    ELSE IF e.eventQueue = <<>> THEN <<e, processedCount>>
    ELSE LET event == Head(e.eventQueue)
             popped == [e EXCEPT !.eventQueue = Tail(@), !.taken = Append(@, event.uid),
                                 !.observed = IF event = NullEvent THEN @
                                              ELSE MapPut(@, event.type,
                                                          MapGet(@, event.type, 0) + 1)]
         IN  IF event # NullEvent
             THEN LET r == dispatchEvent(CountEvent(popped, event.type), event)
                  IN  IF r.raised # "" THEN <<r, processedCount>>
                      ELSE ProcessLoop(r, maxEvents, processedCount + 1)
             ELSE ProcessLoop(popped, maxEvents, processedCount)

\* a processEvents without the guard against nested calls
processEventsUnguarded(e, maxEvents) ==
    LET r == ProcessLoop([e EXCEPT !.processingEvents = TRUE], maxEvents, 0)
    IN  <<[r[1] EXCEPT !.processingEvents = FALSE], r[2]>>

\* returns <<e, the value returned>>.  The handler around the loop catches
\* const std::exception&; an exception of another type leaves the call before
\* processingEvents is reset, and the call returns no value (0 here).
processEvents(e, maxEvents) ==
    IF e.processingEvents THEN <<e, 0>>
    ELSE LET r == ProcessLoop([e EXCEPT !.processingEvents = TRUE], maxEvents, 0)
         IN  CASE r[1].raised = "" -> <<[r[1] EXCEPT !.processingEvents = FALSE], r[2]>>
               [] r[1].raised = "std" ->
                    <<[r[1] EXCEPT !.processingEvents = FALSE, !.raised = ""], r[2]>>
               [] OTHER -> <<r[1], 0>>

publishImmediate(e, event) ==
    IF event = NullEvent THEN e
    ELSE dispatchEvent(CountEvent(e, event.type), event)

\* a publishBatch that does not look at the capacity
RECURSIVE publishBatchAll(_, _)
publishBatchAll(e, events) ==
    IF events = <<>> THEN e
    ELSE publishBatchAll(IF Head(events) # NullEvent
                         THEN [e EXCEPT !.eventQueue = Append(@, Head(events))]
                         ELSE e,
                         Tail(events))

\* publishBatch: each non-null event that finds room is appended, in the
\* order of the vector
RECURSIVE publishBatch(_, _)
publishBatch(e, events) ==
    IF events = <<>> THEN e
    ELSE LET event == Head(events)
             queued == IF event # NullEvent /\ Len(e.eventQueue) < e.maxQueueSize
                       THEN [e EXCEPT !.eventQueue = Append(@, event)]
                       ELSE e
         IN  publishBatch(queued, Tail(events))

addEventFilter(e, eventType) == [e EXCEPT !.eventFilters = Append(@, eventType)]

\* std::find + erase: the first occurrence goes
removeEventFilter(e, eventType) ==
    LET at == {i \in 1..Len(e.eventFilters) : e.eventFilters[i] = eventType}
    IN  IF at = {} THEN e
        ELSE LET it == CHOOSE i \in at : \A j \in at : i <= j
             IN  [e EXCEPT !.eventFilters = SubSeq(@, 1, it - 1) \o SubSeq(@, it + 1, Len(@))]

clearEventFilters(e) == [e EXCEPT !.eventFilters = <<>>]

resetStatistics(e) == [e EXCEPT !.eventCounts = EmptyMap]

\* setMaxQueueSize: the member is assigned; the queue is left as it is
setMaxQueueSize(e, maxSize) == [e EXCEPT !.maxQueueSize = maxSize]

\* the uids of the events of a queue, oldest first
RECURSIVE Uids(_)
Uids(q) == IF q = <<>> THEN <<>> ELSE <<Head(q).uid>> \o Uids(Tail(q))

(***************************************************************************)
(* EventManager actions: one per public method, called by the driver.      *)
(***************************************************************************)
\* the event a caller constructs for a publish call: a new object, or null
NewEvents(e) ==
    {NullEvent} \cup {[type |-> t, uid |-> e.created + 1] : t \in EventTypes}

Created(e, event) == IF event = NullEvent THEN e ELSE [e EXCEPT !.created = @ + 1]

\* number of subscribers in the registry (getSubscriberCount(""))
RECURSIVE SumLen(_, _)
SumLen(m, ts) ==
    IF ts = {} THEN 0
    ELSE LET t == CHOOSE x \in ts : TRUE
         IN  Len(m[t]) + SumLen(m, ts \ {t})

TotalSubscribers(e) == SumLen(e.subscribers, DOMAIN e.subscribers)

\* a getSubscriberCount that leaves out the paused subscribers
getSubscriberCountActive(e, eventType) ==
    IF eventType = "" THEN TotalSubscribers(e)
    ELSE IF eventType \in DOMAIN e.subscribers
         THEN Cardinality({i \in 1..Len(e.subscribers[eventType]) :
                              e.subscribers[eventType][i].active})
         ELSE 0

\* getSubscriberCount: eventType = "" asks for the total over all types
getSubscriberCount(e, eventType) ==
    IF eventType = "" THEN TotalSubscribers(e)
    ELSE IF eventType \in DOMAIN e.subscribers THEN Len(e.subscribers[eventType])
         ELSE 0

\* the id a subscribe call returns
SubscribedId(e, eventType, subscriberId) ==
    IF subscriberId = NoId THEN generateSubscriberId(eventType, e.counter)
    ELSE subscriberId

Subscribe(eventType, cb, subscriberId, priority) ==
    /\ \/ FindId(MapGet(em.subscribers, eventType, <<>>), subscriberId) # 0
       \/ TotalSubscribers(em) < MaxSubs
    /\ subscriberId = NoId => em.counter < MaxGenerated
    /\ em' = [subscribe(Enter(em, "subscribe", priority), eventType, cb, subscriberId, priority)
                EXCEPT !.registered = @ \cup {<<eventType, SubscribedId(em, eventType, subscriberId)>>},
                       !.ret = IF FindId(MapGet(em.subscribers, eventType, <<>>),
                                         SubscribedId(em, eventType, subscriberId)) # 0
                               THEN 1 ELSE 0]
    /\ UNCHANGED sm

Unsubscribe(eventType, subscriberId) ==
    /\ LET r == unsubscribe(Enter(em, "unsubscribe", 0), eventType, subscriberId)
       IN  em' = [r[1] EXCEPT !.ret = IF r[2] THEN 1 ELSE 0,
                              !.registered = @ \ {<<eventType, subscriberId>>}]
    /\ UNCHANGED sm

UnsubscribeAll(subscriberId) ==
    /\ em' = [unsubscribeAll(Enter(em, "unsubscribeAll", 0), subscriberId)
                EXCEPT !.registered = {r \in @ : r[2] # subscriberId}]
    /\ UNCHANGED sm

SetSubscriberActive(subscriberId, active) ==
    /\ em' = setSubscriberActive(Enter(em, "setSubscriberActive", 0), subscriberId, active)
    /\ UNCHANGED sm

\* the bystander's count of one more event of a type (none for a null event)
Observe(e, event) ==
    IF event = NullEvent THEN e
    ELSE [e EXCEPT !.observed = MapPut(@, event.type, MapGet(@, event.type, 0) + 1)]

PublishImmediate(event) ==
    /\ em.created < MaxEvents
    /\ em' = publishImmediate(Observe(Created(Enter(em, "publishImmediate", event.uid),
                                               event), event),
                              event)
    /\ UNCHANGED sm

Publish(event) ==
    /\ em.created < MaxEvents
    /\ em' = publish(Created(Enter(em, "publish", event.uid), event), event)
    /\ UNCHANGED sm

\* the vectors a caller gives to publishBatch: none, one or two entries, each
\* a new event or null (t = "")
BatchEntry(t, uid) == IF t = "" THEN NullEvent ELSE [type |-> t, uid |-> uid]

Batches(e) ==
    LET ts == EventTypes \cup {""}
        n == e.created
    IN  {<<>>} \cup {<<BatchEntry(a, n + 1)>> : a \in ts}
             \cup {<<BatchEntry(a, n + 1),
                     BatchEntry(b, IF a = "" THEN n + 1 ELSE n + 2)>> : a, b \in ts}

NonNull(events) == Cardinality({k \in 1..Len(events) : events[k] # NullEvent})

PublishBatch(events) ==
    /\ em.created + NonNull(events) <= MaxEvents
    /\ em' = publishBatch([Enter(em, "publishBatch", Len(events))
                             EXCEPT !.created = @ + NonNull(events)], events)
    /\ UNCHANGED sm

ProcessEvents(maxEvents) ==
    /\ LET r == processEvents(Enter(em, "processEvents", maxEvents), maxEvents)
       IN  em' = [r[1] EXCEPT !.ret = r[2]]
    /\ UNCHANGED sm

AddEventFilter(eventType) ==
    /\ Len(em.eventFilters) < MaxFilters
    /\ em' = addEventFilter(Enter(em, "addEventFilter", 0), eventType)
    /\ UNCHANGED sm

RemoveEventFilter(eventType) ==
    /\ em' = removeEventFilter(Enter(em, "removeEventFilter", 0), eventType)
    /\ UNCHANGED sm

ClearEventFilters ==
    /\ em' = clearEventFilters(Enter(em, "clearEventFilters", 0))
    /\ UNCHANGED sm

ResetStatistics ==
    /\ em' = [resetStatistics(Enter(em, "resetStatistics", 0)) EXCEPT !.observed = EmptyMap]
    /\ UNCHANGED sm

\* ids a caller can name: the explicit ones and the generated ones
KnownIds == ExplicitIds \cup {<<t, n>> : t \in EventTypes, n \in 1..MaxGenerated}

\* arguments given to processEvents: the default 0, small budgets, the frame budget
BudgetArgs == {0, 1, 2, FrameBudget}


(***************************************************************************)
(* StateManager.  sm is the object; a GameState object is a number         *)
(* 1..MaxStates (its identity), NoState is nullptr:                        *)
(*   currentState, nextState   std::unique_ptr<GameState>                  *)
(*   stateStack                std::stack (top = last element)             *)
(*   shouldChangeState, shouldPushState, shouldPopState   bool             *)
(* (lastStateName is written and never read: not modelled)                 *)
(* and what an observer sees of it:                                        *)
(*   allocated    number of GameState objects constructed so far           *)
(*   enterCount, exitCount   calls of enter() / exit() on each object      *)
(*   accepted     the states given to changeState/pushState calls that     *)
(*                recorded them as pending                                 *)
(*   popAccepted  a popState call recorded a pending pop, and              *)
(*                performStatePop has not begun since                      *)
(*   autoRequested  the states getNextState() returned in an update and    *)
(*                that update's changeState call recorded as pending       *)
(*   op           the last public method called                            *)
(*   arg          the state object the last call was about: the one given  *)
(*                to changeState, or the one getNextState() returned in    *)
(*                update; NoState in every other call                      *)
(*   can          what canTransition() answered to that call (TRUE when    *)
(*                arg is NoState)                                          *)
(*   trace        what the last call did, in order: <<hook, object>> for   *)
(*                each hook it called, <<"change" | "push" | "pop", object *)
(*                made current>> for each transition it performed          *)
(*   raised       the exception that left the last call and reached its    *)
(*                caller: "" for none, "other" for a thrown object whose   *)
(*                class is not derived from std::exception                 *)
(***************************************************************************)
NoState == 0

StateManagerInit ==
    [currentState |-> NoState,
     nextState |-> NoState,
     stateStack |-> <<>>,
     shouldChangeState |-> FALSE,
     shouldPushState |-> FALSE,
     shouldPopState |-> FALSE,
     allocated |-> 0,
     enterCount |-> [i \in 1..MaxStates |-> 0],
     exitCount |-> [i \in 1..MaxStates |-> 0],
     accepted |-> {},
     popAccepted |-> FALSE,
     autoRequested |-> {},
     op |-> "new",
     arg |-> NoState,
     can |-> TRUE,
     trace |-> <<>>,
     raised |-> ""]

Begin(s, name) ==
    [s EXCEPT !.op = name, !.arg = NoState, !.can = TRUE, !.trace = <<>>, !.raised = ""]

Log(s, what, id) == [s EXCEPT !.trace = Append(@, <<what, id>>)]

\* std::make_unique<SomeState>(): the new object is number allocated + 1
Construct(s) == [s EXCEPT !.allocated = @ + 1]

\* a changeState that makes the new state current before it returns
changeStateNow(s, newState, can) ==
    IF newState = NoState THEN s
    ELSE IF s.currentState # NoState /\ ~can THEN s
    ELSE [s EXCEPT !.currentState = newState,
                   !.enterCount[newState] = @ + 1,
                   !.accepted = @ \cup {newState}]

\* a changeState that does not ask the current state's canTransition()
changeStateUnchecked(s, newState, can) ==
    IF newState = NoState THEN s
    ELSE [s EXCEPT !.nextState = newState,
                   !.shouldChangeState = TRUE,
                   !.accepted = @ \cup {newState}]

\* can: what currentState->canTransition() answers when it is asked
changeState(s, newState, can) ==
    IF newState = NoState THEN s
    ELSE IF s.currentState # NoState /\ ~can THEN s
    ELSE [s EXCEPT !.nextState = newState,
                   !.shouldChangeState = TRUE,
                   !.accepted = @ \cup {newState}]

pushState(s, overlayState) ==
    IF overlayState = NoState THEN s
    ELSE [s EXCEPT !.nextState = overlayState,
                   !.shouldPushState = TRUE,
                   !.accepted = @ \cup {overlayState}]

\* a popState that records the pop also when nothing is suspended
popStateAlways(s) ==
    [s EXCEPT !.shouldPopState = TRUE, !.popAccepted = TRUE]

popState(s) ==
    IF s.stateStack = <<>> THEN s
    ELSE [s EXCEPT !.shouldPopState = TRUE, !.popAccepted = TRUE]

(***************************************************************************)
(* Hooks.  A script says what the hooks called during one StateManager     *)
(* call do with the controller: the hook called at position script.at      *)
(* makes the request script.act, the others make none.  Positions:         *)
(*   "exitChange"  exit() called by performStateChange                     *)
(*   "enterChange" enter() called by performStateChange                    *)
(*   "enterPush"   enter() called by performStatePush                      *)
(*   "exitPop"     exit() called by performStatePop                        *)
(*   "enterInitial" enter() called by setInitialState                      *)
(*   "update", "render", "handleInput"  the forwarded calls                *)
(* script.auto: getNextState() returns a new state; script.can: the        *)
(* answer of canTransition() to the changeState call that follows.         *)
(***************************************************************************)
HookActs == {"change", "push", "pop"}

UpdatePositions == {"exitChange", "enterChange", "enterPush", "exitPop", "update"}

Script(at, act, auto, can) == [at |-> at, act |-> act, auto |-> auto, can |-> can]

QuietScript == Script("none", "none", FALSE, TRUE)

\* an update() hook that throws a std::runtime_error ("throw") or an int
\* ("throwOther"); auto is what its getNextState() would return
FaultScripts ==
    {Script("update", act, auto, TRUE) : act \in {"throw", "throwOther"}, auto \in BOOLEAN}

UpdateScripts ==
    {Script(at, act, auto, can) :
        at \in UpdatePositions, act \in HookActs, auto \in {FALSE}, can \in {TRUE}}
    \cup {Script("none", "none", auto, can) : auto \in BOOLEAN, can \in BOOLEAN}
    \cup FaultScripts

ForwardScripts(position) ==
    {QuietScript} \cup {Script(position, act, FALSE, TRUE) : act \in HookActs}

\* a request made from inside a hook; a hook constructs a state only while
\* the behaviour's budget of objects lasts
Request(s, act) ==
    CASE act = "change" /\ s.allocated < MaxStates ->
            changeState(Construct(s), s.allocated + 1, TRUE)
      [] act = "push" /\ s.allocated < MaxStates ->
            pushState(Construct(s), s.allocated + 1)
      [] act = "pop" -> popState(s)
      [] OTHER -> s

\* currentState->hook(), called at the given position
CallHook(s, hook, position, script) ==
    LET id == s.currentState
        logged == Log(s, hook, id)
        counted == CASE hook = "enter" -> [logged EXCEPT !.enterCount[id] = @ + 1]
                     [] hook = "exit" -> [logged EXCEPT !.exitCount[id] = @ + 1]
                     [] OTHER -> logged
    IN  IF script.at = position THEN Request(counted, script.act) ELSE counted

cleanupCurrentState(s, position, script) ==
    IF s.currentState # NoState
    THEN [CallHook(s, "exit", position, script) EXCEPT !.currentState = NoState]
    ELSE s

\* a setInitialState that takes the state also when one is current
setInitialStateAlways(s, initialState, script) ==
    IF initialState = NoState THEN s
    ELSE CallHook([s EXCEPT !.currentState = initialState], "enter", "enterInitial",
                  script)

setInitialState(s, initialState, script) ==
    IF s.currentState # NoState THEN s
    ELSE IF initialState = NoState THEN s
    ELSE CallHook([s EXCEPT !.currentState = initialState], "enter", "enterInitial",
                  script)

performStateChange(s, script) ==
    IF s.nextState = NoState THEN s
    ELSE LET cleaned == cleanupCurrentState(s, "exitChange", script)
             moved == [cleaned EXCEPT !.currentState = cleaned.nextState,
                                      !.nextState = NoState]
         IN  CallHook(Log(moved, "change", moved.currentState),
                      "enter", "enterChange", script)

performStatePush(s, script) ==
    IF s.nextState = NoState THEN s
    ELSE LET stacked == IF s.currentState # NoState
                        THEN [s EXCEPT !.stateStack = Append(@, s.currentState)]
                        ELSE s
             moved == [stacked EXCEPT !.currentState = s.nextState,
                                      !.nextState = NoState]
         IN  CallHook(Log(moved, "push", moved.currentState),
                      "enter", "enterPush", script)

\* a pop that restores the suspended state over the current one, which is
\* neither exited nor discarded first
performStatePopNoExit(s, script) ==
    IF s.stateStack = <<>> THEN s
    ELSE LET top == s.stateStack[Len(s.stateStack)]
         IN  Log([s EXCEPT !.popAccepted = FALSE,
                           !.currentState = top,
                           !.stateStack = SubSeq(@, 1, Len(@) - 1)],
                 "pop", top)

\* a pop that calls enter() on the state it restores
performStatePopReenter(s, script) ==
    IF s.stateStack = <<>> THEN s
    ELSE LET cleaned == cleanupCurrentState([s EXCEPT !.popAccepted = FALSE],
                                            "exitPop", script)
             top == cleaned.stateStack[Len(cleaned.stateStack)]
             restored == Log([cleaned EXCEPT !.currentState = top,
                                             !.stateStack = SubSeq(@, 1, Len(@) - 1)],
                             "pop", top)
         IN  CallHook(restored, "enter", "none", script)

\* a pop that discards the suspended state instead of making it current
performStatePopDiscard(s, script) ==
    IF s.stateStack = <<>> THEN s
    ELSE LET cleaned == cleanupCurrentState([s EXCEPT !.popAccepted = FALSE],
                                            "exitPop", script)
             top == cleaned.stateStack[Len(cleaned.stateStack)]
         IN  Log([cleaned EXCEPT !.stateStack = SubSeq(@, 1, Len(@) - 1)], "pop", top)

performStatePop(s, script) ==
    IF s.stateStack = <<>> THEN s
    ELSE LET cleaned == cleanupCurrentState([s EXCEPT !.popAccepted = FALSE],
                                            "exitPop", script)
             top == cleaned.stateStack[Len(cleaned.stateStack)]
         IN  Log([cleaned EXCEPT !.currentState = top,
                                 !.stateStack = SubSeq(@, 1, Len(@) - 1)],
                 "pop", top)

\* the three deferred operations of update, in the order of the code
ApplyChange(s, script) ==
    IF s.shouldChangeState
    THEN [performStateChange(s, script) EXCEPT !.shouldChangeState = FALSE]
    ELSE s

ApplyPush(s, script) ==
    IF s.shouldPushState
    THEN [performStatePush(s, script) EXCEPT !.shouldPushState = FALSE]
    ELSE s

ApplyPop(s, script) ==
    IF s.shouldPopState
    THEN [performStatePop(s, script) EXCEPT !.shouldPopState = FALSE]
    ELSE s

\* an update whose getNextState() result is made current before it returns
UpdateCurrentNow(s, script) ==
    IF s.currentState = NoState THEN s
    ELSE LET updated == CallHook(s, "update", "update", script)
         IN  IF script.auto /\ updated.allocated < MaxStates
             THEN changeStateNow(Construct(updated), updated.allocated + 1, script.can)
             ELSE updated

\* currentState->update(deltaTime), then the getNextState() check, inside
\* try { } catch (const std::exception&): an exception thrown by update()
\* skips the getNextState() check; the handler takes a std::exception, any
\* other thrown object leaves update
UpdateCurrent(s, script) ==
    IF s.currentState = NoState THEN s
    ELSE LET updated == CallHook(s, "update", "update", script)
         IN  CASE script \in FaultScripts /\ script.act = "throw" -> updated
               [] script \in FaultScripts /\ script.act = "throwOther" ->
                    [updated EXCEPT !.raised = "other"]
               [] OTHER ->
                    IF script.auto /\ updated.allocated < MaxStates
                    THEN changeState(Construct(updated), updated.allocated + 1, script.can)
                    ELSE updated

update(s, script) ==
    UpdateCurrent(ApplyPop(ApplyPush(ApplyChange(s, script), script), script), script)

\* a render that is also forwarded to the state on top of the suspension stack
renderSuspended(s, script) ==
    LET forwarded == IF s.currentState # NoState
                     THEN CallHook(s, "render", "render", script)
                     ELSE s
    IN  IF s.stateStack = <<>> THEN forwarded
        ELSE Log(forwarded, "render", s.stateStack[Len(s.stateStack)])

render(s, script) ==
    IF s.currentState # NoState THEN CallHook(s, "render", "render", script) ELSE s

handleInput(s, script) ==
    IF s.currentState # NoState THEN CallHook(s, "handleInput", "handleInput", script)
    ELSE s

\* state->exit() on the states of the stack, top first (the loop of the
\* destructor)
RECURSIVE ExitStacked(_)
ExitStacked(s) ==
    IF s.stateStack = <<>> THEN s
    ELSE LET top == s.stateStack[Len(s.stateStack)]
             popped == [s EXCEPT !.stateStack = SubSeq(@, 1, Len(@) - 1)]
         IN  ExitStacked([Log(popped, "exit", top) EXCEPT !.exitCount[top] = @ + 1])

\* a destructor that releases the suspended states without calling exit()
destroyCurrentOnly(s) ==
    [cleanupCurrentState(s, "none", QuietScript)
        EXCEPT !.stateStack = <<>>, !.nextState = NoState]

\* ~StateManager: exit() on the current state, then on every suspended one;
\* the members (a pending nextState among them) are released after the body
destroy(s) ==
    [ExitStacked(cleanupCurrentState(s, "none", QuietScript))
        EXCEPT !.nextState = NoState]

(***************************************************************************)
(* StateManager actions: one per public method, called by the driver.      *)
(***************************************************************************)
\* the controller has been constructed and not destroyed
Alive(s) == s.op # "~StateManager"

\* the argument of a call that takes a state: a new object, or nullptr
NewStates(s) == {NoState, s.allocated + 1}

Constructed(s, state) == IF state = NoState THEN s ELSE Construct(s)

SetInitialState(state, script) ==
    /\ Alive(sm)
    /\ sm.allocated < MaxStates
    /\ sm' = setInitialState(Constructed(Begin(sm, "setInitialState"), state), state,
                             script)
    /\ UNCHANGED em

ChangeState(state, can) ==
    /\ Alive(sm)
    /\ sm.allocated < MaxStates
    /\ sm' = [changeState(Constructed(Begin(sm, "changeState"), state), state, can)
                EXCEPT !.arg = state, !.can = (state = NoState \/ can)]
    /\ UNCHANGED em

\* can: what currentState->canTransition() would answer during the call;
\* pushState and popState do not ask
PushState(state, can) ==
    /\ Alive(sm)
    /\ sm.allocated < MaxStates
    /\ sm' = [pushState(Constructed(Begin(sm, "pushState"), state), state)
                EXCEPT !.arg = state,
                       !.can = (state = NoState \/ sm.currentState = NoState \/ can)]
    /\ UNCHANGED em

PopState(can) ==
    /\ Alive(sm)
    /\ sm' = [popState(Begin(sm, "popState"))
                EXCEPT !.can = (sm.stateStack = <<>> \/ can)]
    /\ UNCHANGED em

\* the object getNextState() returned in the call that led from s to r
AutoState(s, r, script) ==
    IF script.auto /\ r.allocated > s.allocated THEN r.allocated ELSE NoState

Update(script) ==
    /\ Alive(sm)
    /\ LET r == update(Begin(sm, "update"), script)
           auto == AutoState(sm, r, script)
       IN  sm' = [r EXCEPT !.arg = auto, !.can = (auto = NoState \/ script.can),
                           !.autoRequested = IF auto \in r.accepted
                                             THEN @ \cup {auto} ELSE @]
    /\ UNCHANGED em

Render(script) ==
    /\ Alive(sm)
    /\ sm' = render(Begin(sm, "render"), script)
    /\ UNCHANGED em

HandleInput(script) ==
    /\ Alive(sm)
    /\ sm' = handleInput(Begin(sm, "handleInput"), script)
    /\ UNCHANGED em

Destroy ==
    /\ Alive(sm)
    /\ sm' = destroy(Begin(sm, "~StateManager"))
    /\ UNCHANGED em

StateInit ==
    /\ em = EventManagerInit(MaxCapacity)
    /\ sm = StateManagerInit

StateNext ==
    \/ \E st \in NewStates(sm), sc \in ForwardScripts("enterInitial") :
          SetInitialState(st, sc)
    \/ \E st \in NewStates(sm), can \in BOOLEAN : ChangeState(st, can)
    \/ \E st \in NewStates(sm), can \in BOOLEAN : PushState(st, can)
    \/ \E can \in BOOLEAN : PopState(can)
    \/ \E sc \in UpdateScripts : Update(sc)
    \/ \E sc \in ForwardScripts("render") : Render(sc)
    \/ \E sc \in ForwardScripts("handleInput") : HandleInput(sc)
    \/ Destroy

StateSpec == StateInit /\ [][StateNext]_vars

Init ==
    /\ em \in {EventManagerInit(c) : c \in 1..MaxCapacity}
    /\ sm = StateManagerInit

Next ==
    \/ \E t \in EventTypes, id \in ExplicitIds \cup {NoId}, p \in Priorities :
          Subscribe(t, CallbackOf(id), id, p)
    \/ \E t \in EventTypes, id \in KnownIds : Unsubscribe(t, id)
    \/ \E id \in KnownIds : UnsubscribeAll(id)
    \/ \E id \in KnownIds, b \in BOOLEAN : SetSubscriberActive(id, b)
    \/ \E ev \in NewEvents(em) : PublishImmediate(ev)
    \/ \E ev \in NewEvents(em) : Publish(ev)
    \/ \E evs \in Batches(em) : PublishBatch(evs)
    \/ \E m \in BudgetArgs : ProcessEvents(m)

Spec == Init /\ [][Next]_vars

(***************************************************************************)
(* The registry alone: a driver that subscribes, unsubscribes, pauses and   *)
(* resumes subscribers and publishes immediately, with no queue traffic.    *)
(***************************************************************************)
\* the callbacks its subscribers have: none of them publishes
RegistryCallbacks(id) == IF id = NoId THEN {"noop"} ELSE {"noop", "process"}

RegistryNext ==
    \/ \E t \in EventTypes, id \in ExplicitIds \cup {NoId}, p \in Priorities :
          \E cb \in RegistryCallbacks(id) : Subscribe(t, cb, id, p)
    \/ \E t \in EventTypes, id \in KnownIds : Unsubscribe(t, id)
    \/ \E id \in KnownIds : UnsubscribeAll(id)
    \/ \E id \in KnownIds, b \in BOOLEAN : SetSubscriberActive(id, b)
    \/ \E ev \in NewEvents(em) : PublishImmediate(ev)

RegistrySpec == Init /\ [][RegistryNext]_vars

(***************************************************************************)
(* Dispatch with an allow-list and failing callbacks: the subscribers all   *)
(* listen to one type and return, throw a std::runtime_error or throw an    *)
(* int; events of both types are published, immediately or through the      *)
(* queue, while the driver edits the allow-list and resets the statistics.  *)
(***************************************************************************)
FilterType == "A"

\* the first explicit id is a subscriber that fails, the other one returns
FaultCallbacks(id) == IF id = <<"UI", 0>> THEN {"throw", "throwOther"} ELSE {"noop"}

FilterNext ==
    \/ \E id \in ExplicitIds, p \in Priorities : \E cb \in FaultCallbacks(id) :
          Subscribe(FilterType, cb, id, p)
    \/ \E t \in EventTypes : AddEventFilter(t)
    \/ \E t \in EventTypes : RemoveEventFilter(t)
    \/ ClearEventFilters
    \/ ResetStatistics
    \/ \E ev \in NewEvents(em) : PublishImmediate(ev)
    \/ \E ev \in NewEvents(em) : Publish(ev)
    \/ \E m \in {1, FrameBudget} : ProcessEvents(m)

FilterSpec == Init /\ [][FilterNext]_vars

(***************************************************************************)
(* SortSpec: one event type whose subscriber list grows past the size at   *)
(* which std::sort stops being an insertion sort.  Every subscriber gets a *)
(* generated id, so the id's number is the order of registration.          *)
(***************************************************************************)
SortType == "A"

SortList(e) == MapGet(e.subscribers, SortType, <<>>)

Prioritised(e) ==
    Cardinality({i \in 1..Len(SortList(e)) : SortList(e)[i].priority # DefaultPriority})

SortSubscribe(priority) ==
    /\ Len(SortList(em)) < MaxSortSubs
    /\ priority # DefaultPriority => Prioritised(em) < MaxPrioritised
    /\ em' = subscribe(Enter(em, "subscribe", priority), SortType, "noop", NoId, priority)
    /\ UNCHANGED sm

SortPublishImmediate ==
    PublishImmediate([type |-> SortType, uid |-> em.created + 1])

SortInit ==
    /\ em = EventManagerInit(MaxCapacity)
    /\ sm = StateManagerInit

SortNext ==
    \/ \E p \in Priorities \cup {DefaultPriority} : SortSubscribe(p)
    \/ SortPublishImmediate

SortSpec == SortInit /\ [][SortNext]_vars

(***************************************************************************)
(* ThreadSpec: the EventManager called from several threads.  Here em is    *)
(* the object of the sequential model with, in addition:                   *)
(*   subscriberMutex, queueMutex   the thread holding the std::mutex, 0     *)
(*                                 when it is free                          *)
(*   thread       for each thread, where it is in the call it is making     *)
(*                (pc) and the locals of that call                          *)
(* and what an observer sees:                                              *)
(*   acceptedUids   the events that publish/publishBatch put in the queue   *)
(*   consumed       the events taken off the queue, in order, by a          *)
(*                  processEvents dequeue or by clearEventQueue             *)
(*   increments     the number of eventCounts[type]++ executed              *)
(*   activeAccess   the accesses made to a Subscriber's active flag:        *)
(*                  <<"read" | "write", the thread held subscriberMutex>>   *)
(*   generatedIds   the ids generateSubscriberId has returned               *)
(*   serial         the number of Subscriber objects constructed; a         *)
(*                  callback is <<what it does, serial of its object>>      *)
(*   strayNodes     the values of the nodes with the event type's key that  *)
(*                  a racing insert linked into eventCounts beside the      *)
(*                  first one                                               *)
(*   lostNodes      the nodes a racing insert counted in size() that no     *)
(*                  traversal of eventCounts reaches                        *)
(*   crashed        the process was killed inside a racing insert           *)
(*   subscriberActive   the active member of each Subscriber object, by     *)
(*                  serial: the object lives on, held by the copies made    *)
(*                  by dispatchEvent, after the registry has dropped it     *)
(* A step of a thread is one access to shared data, or one critical        *)
(* section from after its lock_guard to the release.  One event type is     *)
(* used.  An access the code makes without a lock is a step of its own, so  *)
(* that it interleaves with the other thread's steps.                       *)
(***************************************************************************)
Threads == 1..MaxThreads

ThreadType == "A"

\* an explicit id that spells like the first generated one ("A_1")
ThreadExplicitId == <<ThreadType, 1>>

IdleThread ==
    [pc |-> "idle", op |-> "none", next |-> "none", back |-> "idle", calls |-> 0,
     id |-> NoId, generated |-> FALSE, cb |-> <<"none", 0>>, flag |-> FALSE,
     event |-> NullEvent, pub |-> NullEvent, batch |-> <<>>, budget |-> 0,
     processed |-> 0, tmp |-> 0, node |-> 0, copy |-> <<>>, i |-> 0]

ThreadedInit(maxQueue) ==
    EventManagerInit(maxQueue) @@
    [subscriberMutex |-> 0, queueMutex |-> 0,
     thread |-> [t \in Threads |-> IdleThread],
     acceptedUids |-> {}, consumed |-> <<>>, increments |-> 0,
     activeAccess |-> {}, generatedIds |-> {}, serial |-> 0,
     strayNodes |-> <<>>, lostNodes |-> 0, crashed |-> FALSE,
     subscriberActive |-> [k \in 1..MaxThreadSubs |-> TRUE]]

\* the call ends: back to the caller, which is the dispatch loop when a
\* callback made the call
Return(e, t) ==
    LET l == e.thread[t]
    IN  IF l.back = "check"
        THEN [e EXCEPT !.thread[t].pc = "check", !.thread[t].back = "idle",
                       !.thread[t].i = @ + 1]
        ELSE [e EXCEPT !.thread[t] = [IdleThread EXCEPT !.calls = l.calls]]

\* std::lock_guard: the constructor takes the mutex, next is the first
\* statement of the critical section
Lock(e, t) ==
    IF e.thread[t].pc = "lockRegistry"
    THEN [e EXCEPT !.subscriberMutex = t, !.thread[t].pc = e.thread[t].next]
    ELSE [e EXCEPT !.queueMutex = t, !.thread[t].pc = e.thread[t].next]

\* the events of the queue after a call that are not in the queue before it
Enqueued(before, after) == {after[k].uid : k \in (Len(before) + 1)..Len(after)}

\* oss << (++counter) of generateSubscriberId: a load and a store of the
\* static int, then the value of the expression, which is the counter
\* itself (an lvalue) read once more; a read that follows the store at once
\* gives the value the thread wrote
generateSubscriberIdStep(e, t) ==
    LET l == e.thread[t]
    IN  CASE l.pc = "counterRead" ->
                [e EXCEPT !.thread[t].tmp = e.counter, !.thread[t].pc = "counterWrite"]
          [] l.pc = "counterWrite" ->
                [e EXCEPT !.counter = l.tmp + 1, !.thread[t].pc = "counterValue"]
          [] OTHER ->
                LET id == <<ThreadType, e.counter>>
                IN  [e EXCEPT !.generatedIds = @ \cup {id},
                              !.thread[t].id = id,
                              !.thread[t].pc = "lockRegistry",
                              !.thread[t].next = "subscribeBody"]

\* the critical section of subscribe
subscribeStep(e, t) ==
    LET l == e.thread[t]
        done == subscribe(e, ThreadType, l.cb, l.id, DefaultPriority)
    IN  Return([done EXCEPT !.subscriberMutex = 0], t)

\* the critical section of unsubscribe
\* an unsubscribe that also takes the subscriber out of the list a running
\* dispatch iterates over
unsubscribeStepLive(e, t) ==
    LET id == e.thread[t].id
        purged == [u \in Threads |->
                     [e.thread[u] EXCEPT !.copy = SelectSeq(@, LAMBDA s : s.subscriberId # id)]]
        done == unsubscribe([e EXCEPT !.thread = purged], ThreadType, id)[1]
    IN  Return([done EXCEPT !.subscriberMutex = 0], t)

unsubscribeStep(e, t) ==
    Return([unsubscribe(e, ThreadType, e.thread[t].id)[1] EXCEPT !.subscriberMutex = 0], t)

\* the critical section of setSubscriberActive: the flag of each Subscriber
\* with the id is written
setSubscriberActiveStep(e, t) ==
    LET l == e.thread[t]
        list == MapGet(e.subscribers, ThreadType, <<>>)
        written == IF FindId(list, l.id) # 0
                   THEN {<<"write", e.subscriberMutex = t>>}
                   ELSE {}
        objects == {list[j].callback[2] : j \in {k \in 1..Len(list) : list[k].subscriberId = l.id}}
        done == setSubscriberActive(e, l.id, l.flag)
    IN  Return([done EXCEPT !.subscriberMutex = 0,
                            !.activeAccess = @ \cup written,
                            !.subscriberActive =
                                [k \in 1..MaxThreadSubs |->
                                    IF k \in objects THEN l.flag ELSE @[k]]], t)

\* the critical sections of publish, publishBatch and clearEventQueue
publishStep(e, t) ==
    LET l == e.thread[t]
        done == IF l.pc = "publishBody" THEN publish(e, l.pub)
                ELSE publishBatch(e, l.batch)
    IN  Return([done EXCEPT !.queueMutex = 0,
                            !.acceptedUids = @ \cup Enqueued(e.eventQueue,
                                                             done.eventQueue)], t)

\* clearEventQueue: every queued event is popped and discarded
clearEventQueue(e) == [e EXCEPT !.eventQueue = <<>>]

clearEventQueueStep(e, t) ==
    Return([clearEventQueue(e) EXCEPT !.queueMutex = 0,
                                      !.consumed = @ \o Uids(e.eventQueue)], t)

\* a dequeue that moves the front event out and leaves it in the queue
TakeFrontKeep(e, t) ==
    LET event == Head(e.eventQueue)
    IN  [e EXCEPT !.consumed = Append(@, event.uid),
                  !.thread[t].event = event]

\* std::move(eventQueue.front()); eventQueue.pop()
TakeFront(e, t) ==
    LET event == Head(e.eventQueue)
    IN  [e EXCEPT !.eventQueue = Tail(@),
                  !.consumed = Append(@, event.uid),
                  !.thread[t].event = event]

\* processEvents: the test and the writes of processingEvents, the loop
\* condition and the critical section that takes one event
processEventsStep(e, t) ==
    LET l == e.thread[t]
    IN  CASE l.pc = "guardRead" ->
                IF e.processingEvents THEN Return(e, t)
                ELSE [e EXCEPT !.thread[t].pc = "guardWrite"]
          [] l.pc = "guardWrite" ->
                [e EXCEPT !.processingEvents = TRUE, !.thread[t].pc = "loop"]
          [] l.pc = "loop" ->
                IF l.processed = l.budget
                THEN [e EXCEPT !.thread[t].pc = "guardClear"]
                ELSE [e EXCEPT !.thread[t].pc = "lockQueue",
                               !.thread[t].next = "takeBody"]
          [] l.pc = "takeBody" ->
                IF e.eventQueue = <<>>
                THEN [e EXCEPT !.queueMutex = 0, !.thread[t].pc = "guardClear"]
                ELSE [TakeFront(e, t) EXCEPT !.queueMutex = 0,
                                             !.thread[t].pc = "countRead"]
          [] OTHER ->
                Return([e EXCEPT !.processingEvents = FALSE], t)

\* what an insert into eventCounts does when another thread has linked a
\* node with the key since this thread looked for it (two unlocked changes
\* of one red-black tree, undefined behaviour): it meets the other node and
\* uses it; it links its node where it looked, as the root, so that the new
\* node with the value 0 is the one every lookup arrives at and the earlier
\* node, with the count stored in it, is counted by size() and reached by no
\* traversal; it links a second node with the same key; its own node is the
\* one no traversal reaches; or the process is killed
InsertRaceOutcomes == {"found", "replace", "stray", "lost", "crash"}

\* the nodes operator[] can arrive at: 0 is the node eventCounts holds, k the
\* k-th stray node
NodesOf(e) == {0} \cup (1..Len(e.strayNodes))

\* the choices left open to the step thread t takes at the statement
\* eventCounts[type]++
CountChoices(e, t) ==
    LET l == e.thread[t]
        present == l.event.type \in DOMAIN e.eventCounts
    IN  CASE l.pc = "countRead" /\ present -> {<<"node", n>> : n \in NodesOf(e)}
          [] l.pc = "countInsert" /\ present -> {<<o, 0>> : o \in InsertRaceOutcomes}
          [] OTHER -> {<<"none", 0>>}

\* eventCounts[event->getType()]++: operator[] looks the key up and, when no
\* node holds it, links a new node with the value 0; then the int of the node
\* it arrived at is loaded and stored.  The lookup and the link are two steps
\* with no lock between them.
countStep(e, t, choice) ==
    LET l == e.thread[t]
        type == l.event.type
        value(n) == IF n = 0 THEN e.eventCounts[type] ELSE e.strayNodes[n]
    IN  CASE l.pc = "countRead" ->
                IF type \in DOMAIN e.eventCounts
                THEN [e EXCEPT !.thread[t].node = choice[2],
                               !.thread[t].tmp = value(choice[2]),
                               !.thread[t].pc = "countWrite"]
                ELSE [e EXCEPT !.thread[t].pc = "countInsert"]
          [] l.pc = "countInsert" /\ type \notin DOMAIN e.eventCounts ->
                [e EXCEPT !.eventCounts = MapPut(@, type, 0),
                          !.thread[t].node = 0,
                          !.thread[t].tmp = 0,
                          !.thread[t].pc = "countWrite"]
          [] l.pc = "countInsert" /\ choice[1] = "found" ->
                [e EXCEPT !.thread[t].node = 0,
                          !.thread[t].tmp = value(0),
                          !.thread[t].pc = "countWrite"]
          [] l.pc = "countInsert" /\ choice[1] = "replace" ->
                LET displaced == [u \in Threads |->
                                    IF u # t /\ e.thread[u].pc = "countWrite"
                                             /\ e.thread[u].node = 0
                                    THEN [e.thread[u] EXCEPT !.node = -1]
                                    ELSE e.thread[u]]
                IN  [e EXCEPT !.eventCounts = MapPut(@, type, 0),
                              !.lostNodes = @ + 1,
                              !.thread = [displaced EXCEPT ![t].node = 0,
                                                           ![t].tmp = 0,
                                                           ![t].pc = "countWrite"]]
          [] l.pc = "countInsert" /\ choice[1] = "stray" ->
                [e EXCEPT !.strayNodes = Append(@, 0),
                          !.thread[t].node = Len(e.strayNodes) + 1,
                          !.thread[t].tmp = 0,
                          !.thread[t].pc = "countWrite"]
          [] l.pc = "countInsert" /\ choice[1] = "lost" ->
                [e EXCEPT !.lostNodes = @ + 1,
                          !.thread[t].node = -1,
                          !.thread[t].tmp = 0,
                          !.thread[t].pc = "countWrite"]
          [] l.pc = "countInsert" -> [e EXCEPT !.crashed = TRUE]
          [] OTHER ->
                LET stored == CASE l.node = 0 ->
                                     [e EXCEPT !.eventCounts = MapPut(@, type, l.tmp + 1)]
                                [] l.node > 0 ->
                                     [e EXCEPT !.strayNodes[l.node] = l.tmp + 1]
                                [] OTHER -> e
                IN  [stored EXCEPT !.increments = @ + 1,
                                   !.thread[t].pc = "lockRegistry",
                                   !.thread[t].next = "copyBody"]

\* a dispatch that keeps subscriberMutex after it has copied the list
CopySubscribersLocked(e, t) ==
    [e EXCEPT !.thread[t].copy = MapGet(e.subscribers, e.thread[t].event.type, <<>>),
              !.thread[t].i = 1,
              !.thread[t].pc = "check"]

\* the critical section of dispatchEvent: the list is copied, the lock released
CopySubscribers(e, t) ==
    [e EXCEPT !.subscriberMutex = 0,
              !.thread[t].copy = MapGet(e.subscribers, e.thread[t].event.type, <<>>),
              !.thread[t].i = 1,
              !.thread[t].pc = "check"]

\* subscriber->active of a copied shared_ptr: the flag of the Subscriber
\* object itself, as setSubscriberActive last wrote it while the registry
\* held the object
ActiveFlag(e, subscriber) == e.subscriberActive[subscriber.callback[2]]

\* the loop of dispatchEvent over the copy; a callback publishes a new event
\* or unsubscribes its own id
dispatchEventStep(e, t) ==
    LET l == e.thread[t]
    IN  CASE l.pc = "copyBody" -> CopySubscribers(e, t)
          [] l.pc = "check" /\ l.i > Len(l.copy) ->
                IF l.op = "processEvents"
                THEN [e EXCEPT !.thread[t].processed = @ + 1, !.thread[t].pc = "loop"]
                ELSE Return(e, t)
          [] l.pc = "check" /\ l.i <= Len(l.copy) ->
                LET read == [e EXCEPT !.activeAccess =
                                        @ \cup {<<"read", e.subscriberMutex = t>>}]
                IN  IF ActiveFlag(e, l.copy[l.i])
                    THEN [read EXCEPT !.thread[t].pc = "invoke"]
                    ELSE [read EXCEPT !.thread[t].i = @ + 1]
          [] OTHER ->
                LET called == [e EXCEPT !.thread[t].back = "check"]
                IN  IF l.copy[l.i].callback[1] = "unsubscribe"
                    THEN [called EXCEPT !.thread[t].id = l.copy[l.i].subscriberId,
                                        !.thread[t].pc = "lockRegistry",
                                        !.thread[t].next = "unsubscribeBody"]
                    ELSE IF e.created < MaxThreadEvents
                    THEN [called EXCEPT !.created = @ + 1,
                                        !.thread[t].pub = [type |-> ThreadType,
                                                           uid |-> e.created + 1],
                                        !.thread[t].pc = "lockQueue",
                                        !.thread[t].next = "publishBody"]
                    ELSE Return(called, t)

\* the step thread t takes next, choice settling what the code leaves open
ThreadStep(e, t, choice) ==
    LET pc == e.thread[t].pc
    IN  CASE pc \in {"lockRegistry", "lockQueue"} -> Lock(e, t)
          [] pc \in {"counterRead", "counterWrite", "counterValue"} ->
                generateSubscriberIdStep(e, t)
          [] pc = "subscribeBody" -> subscribeStep(e, t)
          [] pc = "unsubscribeBody" -> unsubscribeStep(e, t)
          [] pc = "setActiveBody" -> setSubscriberActiveStep(e, t)
          [] pc \in {"publishBody", "batchBody"} -> publishStep(e, t)
          [] pc = "clearBody" -> clearEventQueueStep(e, t)
          [] pc \in {"guardRead", "guardWrite", "loop", "takeBody", "guardClear"} ->
                processEventsStep(e, t)
          [] pc \in {"countRead", "countInsert", "countWrite"} ->
                countStep(e, t, choice)
          [] OTHER -> dispatchEventStep(e, t)

\* thread t, in the call named op, takes its next step; a thread at a
\* lock_guard waits until the mutex is free
Step(t, op) ==
    LET l == em.thread[t]
    IN  /\ l.pc # "idle"
        /\ l.op = op
        /\ l.pc = "lockRegistry" => em.subscriberMutex = 0
        /\ l.pc = "lockQueue" => em.queueMutex = 0
        /\ ~em.crashed
        /\ \E choice \in CountChoices(em, t) : em' = ThreadStep(em, t, choice)
        /\ UNCHANGED sm

\* thread t calls a public method: e is em with what the caller constructed,
\* l the locals of the call
Call(t, e, l) ==
    /\ ~em.crashed
    /\ em.thread[t].pc = "idle"
    /\ em.thread[t].calls < MaxCalls
    /\ em' = [e EXCEPT !.thread[t] = [l EXCEPT !.calls = em.thread[t].calls + 1]]
    /\ UNCHANGED sm

\* subscribe(type, callback, id): a generated id gets a callback that
\* publishes, an explicit id one that unsubscribes itself
CallSubscribe(t, generated) ==
    /\ em.serial < MaxThreadSubs
    /\ Call(t, [em EXCEPT !.serial = @ + 1],
            [IdleThread EXCEPT
                !.op = "subscribe",
                !.generated = generated,
                !.id = IF generated THEN NoId ELSE ThreadExplicitId,
                !.cb = <<IF generated THEN "publish" ELSE "unsubscribe", em.serial + 1>>,
                !.pc = IF generated THEN "counterRead" ELSE "lockRegistry",
                !.next = "subscribeBody"])

CallSetSubscriberActive(t, id, active) ==
    Call(t, em, [IdleThread EXCEPT !.op = "setSubscriberActive", !.id = id,
                                   !.flag = active, !.pc = "lockRegistry",
                                   !.next = "setActiveBody"])

\* publish and publishImmediate of a new event
CallPublish(t, op) ==
    /\ em.created < MaxThreadEvents
    /\ LET event == [type |-> ThreadType, uid |-> em.created + 1]
       IN  Call(t, [em EXCEPT !.created = @ + 1],
                IF op = "publish"
                THEN [IdleThread EXCEPT !.op = op, !.pub = event, !.pc = "lockQueue",
                                        !.next = "publishBody"]
                ELSE [IdleThread EXCEPT !.op = op, !.event = event, !.pc = "countRead"])

\* publishBatch of two new events, with or without a null entry between them
CallPublishBatch(t, withNull) ==
    /\ em.created + 2 <= MaxThreadEvents
    /\ LET first == [type |-> ThreadType, uid |-> em.created + 1]
           second == [type |-> ThreadType, uid |-> em.created + 2]
       IN  Call(t, [em EXCEPT !.created = @ + 2],
                [IdleThread EXCEPT !.op = "publishBatch",
                                   !.batch = IF withNull THEN <<first, NullEvent, second>>
                                             ELSE <<first, second>>,
                                   !.pc = "lockQueue", !.next = "batchBody"])

CallProcessEvents(t, maxEvents) ==
    Call(t, em, [IdleThread EXCEPT !.op = "processEvents", !.budget = maxEvents,
                                   !.pc = "guardRead"])

CallClearEventQueue(t) ==
    Call(t, em, [IdleThread EXCEPT !.op = "clearEventQueue", !.pc = "lockQueue",
                                   !.next = "clearBody"])

ThreadInit ==
    /\ em = ThreadedInit(MaxCapacity)
    /\ sm = StateManagerInit

ThreadNext ==
    \E t \in Threads :
        \/ \E generated \in BOOLEAN : CallSubscribe(t, generated)
        \/ \E active \in BOOLEAN : CallSetSubscriberActive(t, ThreadExplicitId, active)
        \/ \E op \in {"publish", "publishImmediate"} : CallPublish(t, op)
        \/ \E withNull \in BOOLEAN : CallPublishBatch(t, withNull)
        \/ \E m \in {1, FrameBudget} : CallProcessEvents(t, m)
        \/ CallClearEventQueue(t)
        \/ Step(t, "subscribe")
        \/ Step(t, "setSubscriberActive")
        \/ Step(t, "publish")
        \/ Step(t, "publishImmediate")
        \/ Step(t, "publishBatch")
        \/ Step(t, "processEvents")
        \/ Step(t, "clearEventQueue")

ThreadSpec == ThreadInit /\ [][ThreadNext]_vars

(***************************************************************************)
(* QueueSpec: the calls that read or change the queue and its capacity,    *)
(* made by one thread on a dispatcher without subscribers.                 *)
(***************************************************************************)
ClearEventQueue ==
    /\ em' = clearEventQueue(Enter(em, "clearEventQueue", 0))
    /\ UNCHANGED sm

SetMaxQueueSize(maxSize) ==
    /\ em' = setMaxQueueSize(Enter(em, "setMaxQueueSize", maxSize), maxSize)
    /\ UNCHANGED sm

getQueueSize(e) == Len(e.eventQueue)

QueueNext ==
    \/ \E ev \in NewEvents(em) : Publish(ev)
    \/ \E evs \in Batches(em) : PublishBatch(evs)
    \/ \E m \in {1, FrameBudget} : ProcessEvents(m)
    \/ ClearEventQueue
    \/ \E maxSize \in 1..MaxCapacity : SetMaxQueueSize(maxSize)

QueueSpec == Init /\ [][QueueNext]_vars

(***************************************************************************)
(* Claims about the EventManager.                                          *)
(***************************************************************************)
\* no registered callback publishes
NoPublisher(e) ==
    \A t \in DOMAIN e.subscribers : \A i \in 1..Len(e.subscribers[t]) :
        e.subscribers[t][i].callback # "publish"

\* C1: processEvents() with its default argument 0 ("process all"), called
\* by the driver with N queued events and callbacks that publish nothing,
\* returns N and leaves the queue empty.
C1_DefaultProcessesAll ==
    [][(em'.op = "processEvents" /\ em'.arg = 0 /\ ~em.processingEvents /\ NoPublisher(em))
        => (em'.ret = Len(em.eventQueue) /\ em'.eventQueue = <<>>)]_vars

\* C2: after any sequence of subscribe, unsubscribe, unsubscribeAll and
\* setSubscriberActive calls, in every dispatch of one event (by
\* publishImmediate or processEvents) the subscribers are invoked in
\* non-decreasing order of their priority.
C2_PriorityOrder ==
    \A i, j \in 1..Len(em.calls) :
        (i < j /\ em.calls[i].uid = em.calls[j].uid)
            => em.calls[i].priority <= em.calls[j].priority

\* C2 witness: one event was delivered to two subscribers of different
\* priorities.
C2_Witness ==
    \E i, j \in 1..Len(em.calls) :
        /\ i < j
        /\ em.calls[i].uid = em.calls[j].uid
        /\ em.calls[i].priority < em.calls[j].priority

\* C3: among the subscribers of one type that have equal priority, the
\* callbacks are invoked in the order of registration (in SortSpec: in the
\* order of the generated ids' numbers).
C3_StableOrder ==
    \A i, j \in 1..Len(em.calls) :
        (i < j /\ em.calls[i].uid = em.calls[j].uid
               /\ em.calls[i].priority = em.calls[j].priority)
            => em.calls[i].subscriberId[2] < em.calls[j].subscriberId[2]

\* C4: publish of an event into a queue that holds maxQueueSize events (or
\* more) leaves the queue as it is; below capacity the event is appended at
\* the tail and the size grows by one.
C4_PublishCapacity ==
    [][(em'.op = "publish" /\ em'.arg # 0 /\ em'.created = em.created + 1)
        => IF Len(em.eventQueue) >= em.maxQueueSize
           THEN em'.eventQueue = em.eventQueue
           ELSE /\ Len(em'.eventQueue) = Len(em.eventQueue) + 1
                /\ SubSeq(em'.eventQueue, 1, Len(em.eventQueue)) = em.eventQueue
                /\ em'.eventQueue[Len(em'.eventQueue)].uid = em'.arg]_vars

\* C4 witness: the last call was a publish whose event was dropped by a
\* queue holding exactly maxQueueSize events.
C4_Witness ==
    /\ em.op = "publish"
    /\ em.arg # 0
    /\ Len(em.eventQueue) = em.maxQueueSize
    /\ \A i \in 1..Len(em.eventQueue) : em.eventQueue[i].uid # em.arg

RECURSIVE SumCounts(_, _)
SumCounts(m, ts) ==
    IF ts = {} THEN 0
    ELSE LET t == CHOOSE x \in ts : TRUE
         IN  m[t] + SumCounts(m, ts \ {t})

Dequeued(e) == SumCounts(e.eventCounts, DOMAIN e.eventCounts)

\* C5: during a processEvents call of the driver, every processEvents call
\* made by a callback returns 0 and dequeues nothing (the events dequeued
\* are the ones the outer call counts), and no subscriber receives the same
\* event twice.
C5_NestedRejected ==
    [][(em'.op = "processEvents" /\ ~em.processingEvents)
        => /\ \A i \in 1..Len(em'.calls) : em'.calls[i].nested \in {-1, 0}
           /\ Dequeued(em') - Dequeued(em) = em'.ret
           /\ \A i, j \in 1..Len(em'.calls) :
                (i < j /\ em'.calls[i].uid = em'.calls[j].uid)
                    => em'.calls[i].subscriberId # em'.calls[j].subscriberId]_vars

\* C5 witness: a callback called processEvents during the driver's call, got
\* 0, and the outer call went on to dispatch the next queued event.
C5_Witness ==
    /\ em.op = "processEvents"
    /\ em.ret = 2
    /\ \E i, j \in 1..Len(em.calls) :
        /\ i < j
        /\ em.calls[i].nested = 0
        /\ em.calls[i].uid # em.calls[j].uid

\* uids are given to events in the order of the publish calls (and of the
\* positions in a batch), so a sequence in enqueue order is increasing
Increasing(u) == \A i, j \in 1..Len(u) : i < j => u[i] < u[j]

\* C15: the queue holds the events in the order they were enqueued by
\* publish and publishBatch, and a processEvents call takes them from its
\* head: the events it dispatched, followed by those it left, are the events
\* that were queued when it began followed by those enqueued during the call,
\* so over one or several calls no event is dispatched after a later one.
C15_FifoDispatch ==
    [][/\ Increasing(Uids(em'.eventQueue))
       /\ em'.op \in {"publish", "publishBatch"}
            => SubSeq(em'.eventQueue, 1, Len(em.eventQueue)) = em.eventQueue
       /\ em'.op = "processEvents"
            => LET before == Uids(em.eventQueue)
                   after == em'.taken \o Uids(em'.eventQueue)
               IN  /\ Len(after) >= Len(before)
                   /\ SubSeq(after, 1, Len(before)) = before
                   /\ Increasing(after)]_vars

\* C15 witness: one processEvents call dispatched two queued events, the one
\* enqueued first before the other.
C15_Witness ==
    /\ em.op = "processEvents"
    /\ Len(em.taken) = 2
    /\ em.taken[1] < em.taken[2]
    /\ em.ret = 2

(***************************************************************************)
(* Claims about the StateManager.                                          *)
(***************************************************************************)
\* the states whose changeState/pushState request was recorded as pending,
\* that no later request has replaced and whose enter() has not been called
PendingStates(s) == {id \in s.accepted : s.nextState = id /\ s.enterCount[id] = 0}

PendingRequests(s) == Cardinality(PendingStates(s)) + (IF s.popAccepted THEN 1 ELSE 0)

Performed(s, what) == \E k \in 1..Len(s.trace) : s.trace[k][1] = what

\* C6: an accepted request is applied by the next update call, whoever made
\* it: when update is called with exactly one accepted request not yet
\* applied (made by external code or by a hook since the previous update
\* began), and no request is accepted during the call, the requested state
\* has been entered, or the requested pop has been performed, when update
\* returns.
C6_AcceptedApplied ==
    [][(/\ sm'.op = "update"
        /\ PendingRequests(sm) = 1
        /\ sm'.accepted = sm.accepted
        /\ ~sm'.popAccepted)
        => /\ \A id \in PendingStates(sm) : sm'.enterCount[id] = 1
           /\ sm.popAccepted => Performed(sm', "pop")]_vars

\* C7: changeState, pushState and popState execute no transition: on return
\* the current state and the suspension stack are what they were and no
\* hook has been called; the current state changes only in an update call
\* (or in setInitialState, which installs the first one, and in the
\* destructor, which releases the last one).
C7_RequestsDeferred ==
    [][/\ sm'.op \in {"changeState", "pushState", "popState"}
            => /\ sm'.currentState = sm.currentState
               /\ sm'.stateStack = sm.stateStack
               /\ sm'.enterCount = sm.enterCount
               /\ sm'.exitCount = sm.exitCount
               /\ sm'.trace = <<>>
       /\ sm'.currentState # sm.currentState
            => sm'.op \in {"update", "setInitialState", "~StateManager"}]_vars

\* C7 witness: changeState has returned with its request recorded as
\* pending while another state is current.
C7_Witness ==
    /\ sm.op = "changeState"
    /\ sm.shouldChangeState
    /\ sm.currentState # NoState
    /\ sm.nextState \notin {NoState, sm.currentState}
    /\ sm.enterCount[sm.nextState] = 0

\* C8: whatever requests were made before it, the update call that finds a
\* pending pushState request with a state current, and performs no pop,
\* moves that state onto the suspension stack without calling its exit(),
\* makes the overlay current and calls its enter(), and the depth grows by
\* one.
C8_PushSuspendsCurrent ==
    [][(/\ sm'.op = "update"
        /\ sm.shouldPushState
        /\ sm.nextState # NoState
        /\ sm.currentState # NoState
        /\ ~Performed(sm', "pop"))
        => /\ sm'.exitCount[sm.currentState] = sm.exitCount[sm.currentState]
           /\ Len(sm'.stateStack) = Len(sm.stateStack) + 1
           /\ sm'.stateStack[Len(sm'.stateStack)] = sm.currentState
           /\ sm'.currentState = sm.nextState
           /\ sm'.enterCount[sm.nextState] = sm.enterCount[sm.nextState] + 1]_vars

\* position of the "pop" entry in the trace of a call
PopAt(tr) == CHOOSE k \in 1..Len(tr) : tr[k][1] = "pop"

\* position of the "push" entry before position k, 0 when there is none
PushBefore(tr, k) ==
    IF \E j \in 1..(k - 1) : tr[j][1] = "push"
    THEN CHOOSE j \in 1..(k - 1) : tr[j][1] = "push"
    ELSE 0

\* the state that was current at position k of the trace of a call made in
\* state s: the one the last change or push before k made current
RECURSIVE CurrentAt(_, _, _)
CurrentAt(s, tr, k) ==
    IF k <= 1 THEN s.currentState
    ELSE IF tr[k - 1][1] \in {"change", "push"} THEN tr[k - 1][2]
    ELSE CurrentAt(s, tr, k - 1)

\* the suspension stack at position k of the trace (before any pop)
StackAt(s, tr, k) ==
    LET j == PushBefore(tr, k)
    IN  IF j # 0 /\ CurrentAt(s, tr, j) # NoState
        THEN Append(s.stateStack, CurrentAt(s, tr, j))
        ELSE s.stateStack

\* C9: when update applies a pop, the state that was current has its exit()
\* called and is discarded, the top of the suspension stack becomes current
\* without enter() being called on it, and the depth shrinks by one (so
\* setInitialState(E), pushState(P), update, popState, update ends with E
\* current and depth 0).
C9_PopRestoresTop ==
    [][(sm'.op = "update" /\ Performed(sm', "pop"))
        => LET tr == sm'.trace
               k == PopAt(tr)
               cur == CurrentAt(sm, tr, k)
               stack == StackAt(sm, tr, k)
               top == stack[Len(stack)]
           IN  /\ stack # <<>>
               /\ cur # NoState
               /\ k > 1
               /\ tr[k - 1] = <<"exit", cur>>
               /\ sm'.exitCount[cur] = 1
               /\ cur # sm'.currentState
               /\ \A i \in 1..Len(sm'.stateStack) : sm'.stateStack[i] # cur
               /\ tr[k] = <<"pop", top>>
               /\ sm'.currentState = top
               /\ \A m \in (k + 1)..Len(tr) : tr[m] # <<"enter", top>>
               /\ sm'.exitCount[top] = 0
               /\ sm'.stateStack = SubSeq(stack, 1, Len(stack) - 1)]_vars

\* C9 witness: Scenario B has run to its end: E (object 1) was installed, P
\* (object 2) was pushed and entered, and the last update exited P and
\* restored E, leaving E current and the stack empty.
C9_Witness ==
    /\ sm.op = "update"
    /\ sm.trace = <<<<"exit", 2>>, <<"pop", 1>>, <<"update", 1>>>>
    /\ sm.allocated = 2
    /\ sm.currentState = 1
    /\ sm.stateStack = <<>>
    /\ sm.enterCount[1] = 1 /\ sm.exitCount[1] = 0
    /\ sm.enterCount[2] = 1 /\ sm.exitCount[2] = 1

\* C10: enter() is called at most once on every state object: a state that
\* is current or suspended has been entered exactly once (also after a pop
\* has restored it), and exit() is called only on an entered state.
C10_EnterOnce ==
    \A id \in 1..MaxStates :
        /\ sm.enterCount[id] <= 1
        /\ sm.exitCount[id] <= sm.enterCount[id]
        /\ (id = sm.currentState \/ \E i \in 1..Len(sm.stateStack) : sm.stateStack[i] = id)
                => sm.enterCount[id] = 1

\* C10 witness: a pop has restored a state that a changeState made current
\* and a pushState suspended; its enter() was called once.
C10_Witness ==
    /\ sm.op = "update"
    /\ Performed(sm, "pop")
    /\ sm.currentState # NoState
    /\ sm.enterCount[sm.currentState] = 1
    /\ \E id \in 1..MaxStates : id < sm.currentState /\ sm.exitCount[id] = 1

\* the last call was changeState(S) with a state current whose
\* canTransition() answered false
Refused(s) ==
    /\ s.op = "changeState"
    /\ s.arg # NoState
    /\ ~s.can

NothingPending(s) ==
    ~s.shouldChangeState /\ ~s.shouldPushState /\ ~s.shouldPopState

\* C11: changeState(S) called while a state is current whose canTransition()
\* answers false records nothing: the pending slot and the three flags stay
\* as they were and no hook is called; and the update that follows such a
\* call (nothing else being pending) leaves the same object current, calls
\* no exit() on it and no enter() on S.
C11_RefusedChange ==
    [][/\ (Refused(sm') /\ sm.currentState # NoState)
            => /\ sm'.nextState = sm.nextState
               /\ sm'.shouldChangeState = sm.shouldChangeState
               /\ sm'.shouldPushState = sm.shouldPushState
               /\ sm'.shouldPopState = sm.shouldPopState
               /\ sm'.currentState = sm.currentState
               /\ sm'.stateStack = sm.stateStack
               /\ sm'.enterCount = sm.enterCount
               /\ sm'.exitCount = sm.exitCount
               /\ sm'.arg \notin sm'.accepted
       /\ (sm'.op = "update" /\ Refused(sm) /\ sm.currentState # NoState)
            => /\ sm'.enterCount[sm.arg] = 0
               /\ sm'.currentState # sm.arg
               /\ NothingPending(sm)
                    => /\ sm'.currentState = sm.currentState
                       /\ sm'.exitCount[sm.currentState] = 0]_vars

\* C11 witness: changeState(S) has just been refused by the current state,
\* with nothing else pending.
C11_Witness ==
    /\ Refused(sm)
    /\ sm.currentState # NoState
    /\ NothingPending(sm)
    /\ sm.enterCount[sm.arg] = 0

\* the transitions ("change", "push", "pop") a call performed
Transitions(s) == {k \in 1..Len(s.trace) : s.trace[k][1] \in HookActs}

\* C12: one update call applies at most one pending transition: whatever
\* requests were made since the previous update, a call during which no hook
\* makes a request performs at most one of change, push and pop among those
\* that were pending when it began.
C12_OneTransition ==
    [][(/\ sm'.op = "update"
        /\ sm'.accepted = sm.accepted
        /\ Performed(sm', "change") => sm.shouldChangeState
        /\ Performed(sm', "push") => sm.shouldPushState
        /\ Performed(sm', "pop") => sm.shouldPopState)
        => Cardinality(Transitions(sm')) <= 1]_vars

\* update has just returned, and in it getNextState() returned the object
\* s.arg
AutoRequested(s) == s.op = "update" /\ s.arg # NoState

\* the call that led to s began by exiting old and entering new in its place
ChangedTo(s, old, new) ==
    /\ Len(s.trace) >= 3
    /\ SubSeq(s.trace, 1, 3) = <<<<"exit", old>>, <<"change", new>>, <<"enter", new>>>>
    /\ s.exitCount[old] = 1
    /\ s.enterCount[new] = 1

Held(s) ==
    {s.currentState, s.nextState} \cup {s.stateStack[i] : i \in 1..Len(s.stateStack)}

\* the state getNextState() returned in an earlier update is the pending
\* change: no changeState or pushState recorded since has taken its place
AutoPending(s) == s.shouldChangeState /\ s.nextState \in s.autoRequested

\* update k has just returned: the state S its getNextState() returned was
\* allowed by canTransition(), is the pending change, and is neither
\* current nor entered
AutoRecorded(s) ==
    (AutoRequested(s) /\ s.can)
        => /\ s.nextState = s.arg /\ s.shouldChangeState
           /\ s.arg \in s.autoRequested
           /\ s.currentState \notin {NoState, s.arg}
           /\ s.enterCount[s.arg] = 0
           /\ ~Performed(s, "change") \/ s.trace[2] # <<"change", s.arg>>

\* update k, which led from r to s, has just returned: the state S its
\* getNextState() returned was refused by canTransition(); S is not held
\* and not entered, no request is recorded and nothing is pending
AutoRefused(r, s) ==
    (AutoRequested(s) /\ ~s.can)
        => /\ s.arg \notin Held(s) \cup s.accepted \cup s.autoRequested
           /\ s.enterCount[s.arg] = 0
           /\ s.accepted = r.accepted
           /\ s.currentState # NoState
           /\ NothingPending(s)

\* the exit() hook of the old state, called by the update that led from r
\* to s, made a change or push request: the state it gave took the place of
\* S as the pending state and was entered instead; S is discarded
ReplacedInExit(r, s, S) ==
    /\ Len(s.trace) >= 3
    /\ s.trace[1] = <<"exit", r.currentState>>
    /\ s.trace[2][1] = "change"
    /\ s.trace[2][2] \in s.accepted \ r.accepted
    /\ s.trace[3] = <<"enter", s.trace[2][2]>>
    /\ s.enterCount[S] = 0
    /\ S \notin Held(s)

\* update k+1 led from r, where S was the pending automatic change, to s
AutoApplied(r, s) ==
    LET S == r.nextState
        applied == ChangedTo(s, r.currentState, S)
    IN  /\ applied \/ ReplacedInExit(r, s, S)
        /\ ~(applied /\ ReplacedInExit(r, s, S))
        /\ applied =>
              /\ (~Performed(s, "push") /\ ~Performed(s, "pop")) => s.currentState = S
              /\ (Performed(s, "push") /\ ~Performed(s, "pop"))
                    => /\ s.stateStack # <<>>
                       /\ s.stateStack[Len(s.stateStack)] = S
                       /\ s.exitCount[S] = 0
              /\ (Performed(s, "pop") /\ ~Performed(s, "push"))
                    => /\ s.exitCount[S] = 1
                       /\ S \notin Held(s)

GameStateHooks == {"enter", "exit", "update", "render", "handleInput"}

\* C14: a state whose enter() was called has had exit() called exactly once
\* when the controller no longer owns it (replaced by a change, popped, or
\* the controller destroyed while it was current or suspended); a state the
\* controller still owns has not been exited; and no hook is called on a
\* state after its exit().
C14_ExitBeforeRelease ==
    [][/\ \A id \in 1..sm'.allocated :
            IF id \in Held(sm')
            THEN sm'.exitCount[id] = 0
            ELSE sm'.exitCount[id] = sm'.enterCount[id] /\ sm'.exitCount[id] <= 1
       /\ \A k \in 1..Len(sm'.trace) :
            sm'.trace[k][1] \in GameStateHooks
                => /\ sm.exitCount[sm'.trace[k][2]] = 0
                   /\ \A j \in 1..(k - 1) : sm'.trace[j] # <<"exit", sm'.trace[k][2]>>]_vars

\* C14 witness: the controller was destroyed while one state was current and
\* another suspended, and the destructor called exit() on both.
C14_Witness ==
    /\ sm.op = "~StateManager"
    /\ Len(sm.trace) = 2
    /\ sm.trace[1][1] = "exit" /\ sm.trace[2][1] = "exit"
    /\ sm.trace[1][2] # sm.trace[2][2]
    /\ sm.exitCount[sm.trace[2][2]] = 1

(***************************************************************************)
(* Claims about the EventManager called from several threads (ThreadSpec). *)
(***************************************************************************)
\* the elements of a sequence
Range(u) == {u[k] : k \in 1..Len(u)}

\* C16: for every interleaving of publish, publishBatch, processEvents and
\* clearEventQueue calls made by several threads, each event accepted into
\* the queue is either still queued or was consumed exactly once, by one
\* processEvents dequeue or by clearEventQueue: no event is taken twice and
\* none disappears.
C16_ConsumedOnce ==
    LET queued == Uids(em.eventQueue)
    IN  /\ \A i, j \in 1..Len(em.consumed) : i < j => em.consumed[i] # em.consumed[j]
        /\ \A i, j \in 1..Len(queued) : i < j => queued[i] # queued[j]
        /\ Range(em.consumed) \cap Range(queued) = {}
        /\ Range(em.consumed) \cup Range(queued) = em.acceptedUids

\* C16 witness: two threads are inside processEvents at once, each holding
\* the event it took off the queue.
C16_Witness ==
    \E t, u \in Threads :
        /\ t # u
        /\ em.thread[t].op = "processEvents" /\ em.thread[u].op = "processEvents"
        /\ em.thread[t].event # NullEvent /\ em.thread[u].event # NullEvent
        /\ em.thread[t].event # em.thread[u].event

\* the pcs at which a thread is inside a critical section
RegistrySections == {"subscribeBody", "unsubscribeBody", "setActiveBody", "copyBody"}

QueueSections == {"publishBody", "batchBody", "clearBody", "takeBody"}

\* C17: in every operation no thread holds subscriberMutex and queueMutex at
\* the same time, a mutex is held only inside the critical section that took
\* it, and none is held while the dispatch loop tests and invokes the
\* subscribers; so a thread that waits for a mutex (also from inside a
\* callback that subscribes, unsubscribes or publishes) holds none, and the
\* holder can always go on to release it: no deadlock.
C17_LocksDisjoint ==
    \A t \in Threads :
        LET pc == em.thread[t].pc
        IN  /\ ~(em.subscriberMutex = t /\ em.queueMutex = t)
            /\ em.subscriberMutex = t <=> pc \in RegistrySections
            /\ em.queueMutex = t <=> pc \in QueueSections
            /\ pc \in {"check", "invoke", "lockRegistry", "lockQueue"}
                    => em.subscriberMutex # t /\ em.queueMutex # t

\* C17 witness: a callback invoked by the dispatch loop has called
\* unsubscribe and is inside its critical section, holding subscriberMutex.
C17_Witness ==
    \E t \in Threads :
        /\ em.thread[t].back = "check"
        /\ em.thread[t].pc = "unsubscribeBody"
        /\ em.subscriberMutex = t
        /\ em.queueMutex # t

\* C18: no increment of a per-type counter is lost: the count of the event
\* type equals the number of increments executed (one per publishImmediate
\* and per dispatched queued event), whatever the threads that made them.
C18_NoLostIncrement ==
    MapGet(em.eventCounts, ThreadType, 0) = em.increments

\* C19: every access to a subscriber's active flag, the write of
\* setSubscriberActive and the read of the dispatch loop, is made by a thread
\* that holds subscriberMutex.
C19_ActiveLocked ==
    \A a \in em.activeAccess : a[2]

\* C20: generateSubscriberId never returns an id it has returned before, and
\* a subscribe call that was given no id adds a subscriber: its id differs
\* from the ids registered for the type, so the list grows by one and no
\* registered subscriber is replaced, for any interleaving of subscribe calls
\* with explicit and generated ids.
C20_GeneratedIdFresh ==
    [][\A t \in Threads :
        LET l == em.thread[t]
            list == MapGet(em.subscribers, ThreadType, <<>>)
        IN  /\ (l.pc = "counterValue" /\ em'.thread[t].pc = "lockRegistry")
                => em'.thread[t].id \notin em.generatedIds
            /\ (l.pc = "subscribeBody" /\ l.generated /\ em'.thread[t].pc = "idle")
                => /\ FindId(list, l.id) = 0
                   /\ Len(MapGet(em'.subscribers, ThreadType, <<>>)) = Len(list) + 1]_vars


(***************************************************************************)
(* C21: after any sequence of subscribe, unsubscribe, unsubscribeAll and   *)
(* setSubscriberActive calls, getSubscriberCount(type) is the number of    *)
(* registrations the driver holds for that type, paused ones included,     *)
(* and 0 for a type the registry has no entry for.                         *)
(***************************************************************************)
RegisteredFor(e, eventType) == {r \in e.registered : r[1] = eventType}

C21_SubscriberCount ==
    \A t \in EventTypes :
        /\ getSubscriberCount(em, t) = Cardinality(RegisteredFor(em, t))
        /\ t \notin DOMAIN em.subscribers => getSubscriberCount(em, t) = 0

\* one type with two registrations, one of them paused, the other type
\* without an entry, reached through an unsubscribe
C21_Witness ==
    /\ em.op \in {"unsubscribe", "unsubscribeAll", "setSubscriberActive"}
    /\ \E t \in EventTypes :
        /\ getSubscriberCount(em, t) = 2
        /\ \E i \in 1..2 : ~em.subscribers[t][i].active
        /\ \E u \in EventTypes : u \notin DOMAIN em.subscribers

(***************************************************************************)
(* C22: unsubscribe(type, id) returns true exactly when a subscriber with  *)
(* that id was registered for that type, and removes it and nothing else;   *)
(* the same call made again at once returns false and changes nothing; the  *)
(* entry of a type whose list became empty is deleted, so that no type maps *)
(* to an empty list and hasSubscribers is false for it.                     *)
(***************************************************************************)
UnsubscribeEffect(t, id) ==
    LET again == unsubscribe(em', t, id)
        others == [u \in DOMAIN em.subscribers \ {t} |-> em.subscribers[u]]
        othersAfter == [u \in DOMAIN em'.subscribers \ {t} |-> em'.subscribers[u]]
    IN  /\ em'.ret = 1 <=> <<t, id>> \in em.registered
        /\ FindId(MapGet(em'.subscribers, t, <<>>), id) = 0
        /\ othersAfter = others
        /\ getSubscriberCount(em', t) = getSubscriberCount(em, t) - em'.ret
        /\ em'.ret = 0 => em'.subscribers = em.subscribers
        /\ ~again[2] /\ again[1] = em'
        /\ hasSubscribers(em', t) <=> t \in DOMAIN em'.subscribers

\* the step is the call unsubscribe(t, id): the driver gave up exactly this
\* registration (a call for a pair it does not hold gives up nothing)
UnsubscribeOf(t, id) ==
    /\ em'.op = "unsubscribe"
    /\ em'.registered = em.registered \ {<<t, id>>}

C22_Unsubscribe ==
    [][/\ \A t \in DOMAIN em'.subscribers : em'.subscribers[t] # <<>>
       /\ em'.op = "unsubscribe" =>
             \A t \in EventTypes, id \in KnownIds :
                 UnsubscribeOf(t, id) => UnsubscribeEffect(t, id)]_vars

\* an unsubscribe call returned true and its removal emptied the registry
C22_Witness ==
    /\ em.op = "unsubscribe"
    /\ em.ret = 1
    /\ em.subscribers = EmptyMap
    /\ em.counter > 0

(***************************************************************************)
(* C23: within the list of one type no two subscribers have the same id.    *)
(* A subscribe call with an id the list already holds replaces that entry:  *)
(* the count stays, the entry carries the new callback and priority and is  *)
(* active, the other entries stay; a later publishImmediate invokes, for    *)
(* each active entry of the list and in list order, the callback the entry  *)
(* holds now, and no other.                                                 *)
(***************************************************************************)
UniqueIds(list) ==
    \A i, j \in 1..Len(list) : list[i].subscriberId = list[j].subscriberId => i = j

ReplaceEffect(t, cb, id, p) ==
    LET old == em.subscribers[t]
        new == em'.subscribers[t]
    IN  /\ Len(new) = Len(old)
        /\ new[FindId(new, id)] = Subscriber(cb, id, p)
        /\ RemoveId(new, id) = RemoveId(old, id)
        /\ \A u \in DOMAIN em.subscribers \ {t} : em'.subscribers[u] = em.subscribers[u]

ActiveOf(list) == SelectSeq(list, LAMBDA s : s.active)

CallsFor(e, uid) == SelectSeq(e.calls, LAMBDA c : c.uid = uid)

InvokesCurrentEntries(event) ==
    LET entries == ActiveOf(MapGet(em.subscribers, event.type, <<>>))
        made == CallsFor(em', event.uid)
    IN  /\ Len(made) = Len(entries)
        /\ \A i \in 1..Len(made) :
              /\ made[i].subscriberId = entries[i].subscriberId
              /\ made[i].callback = entries[i].callback
              /\ made[i].priority = entries[i].priority

C23_ReplaceById ==
    [][/\ \A t \in DOMAIN em'.subscribers : UniqueIds(em'.subscribers[t])
       /\ (em'.op = "subscribe" /\ em'.ret = 1) =>
             \A r \in em.registered : \A cb \in RegistryCallbacks(r[2]) :
                 Subscribe(r[1], cb, r[2], em'.arg) => ReplaceEffect(r[1], cb, r[2], em'.arg)
       /\ (em'.op = "publishImmediate" /\ em'.arg # 0) =>
             \A ev \in NewEvents(em) \ {NullEvent} :
                 PublishImmediate(ev) => InvokesCurrentEntries(ev)]_vars

\* a subscribe call replaced an entry of a list of two with another callback
\* and priority, which moved it behind the other entry
C23_Witness ==
    /\ em.op = "subscribe"
    /\ em.ret = 1
    /\ \E t \in DOMAIN em.subscribers :
          /\ Len(em.subscribers[t]) = 2
          /\ em.subscribers[t][2].priority = em.arg
          /\ em.subscribers[t][1].priority < em.arg

(***************************************************************************)
(* C27: setSubscriberActive(id, false) removes no registration and changes  *)
(* no position, and from then on a publishImmediate of any type invokes no  *)
(* subscriber with that id; setSubscriberActive(id, true) makes a           *)
(* publishImmediate invoke the subscribers with that id again, each at the  *)
(* position its priority gave it in the list.                               *)
(***************************************************************************)
\* the calls a publishImmediate of a new event of type t would make from e
WouldInvoke(e, t) ==
    LET event == [type |-> t, uid |-> e.created + 1]
    IN  CallsFor(publishImmediate(Enter(e, "publishImmediate", event.uid), event), event.uid)

Unflagged(subs) ==
    [t \in DOMAIN subs |-> [i \in 1..Len(subs[t]) |-> [subs[t][i] EXCEPT !.active = TRUE]]]

SetActiveEffect(id, active) ==
    /\ Unflagged(em'.subscribers) = Unflagged(em.subscribers)
    /\ em'.registered = em.registered
    /\ \A t \in DOMAIN em.subscribers :
          LET list == em'.subscribers[t]
              made == WouldInvoke(em', t)
          IN  /\ \A i \in 1..Len(list) :
                    list[i].active = IF list[i].subscriberId = id THEN active
                                     ELSE em.subscribers[t][i].active
              /\ ~active => \A k \in 1..Len(made) : made[k].subscriberId # id
              /\ active => \A i \in 1..Len(list) :
                    list[i].subscriberId = id =>
                        \E k \in 1..Len(made) :
                            /\ made[k].subscriberId = id
                            /\ k = Len(ActiveOf(SubSeq(list, 1, i)))

C27_PauseAndResume ==
    [][em'.op = "setSubscriberActive" =>
          \A id \in KnownIds, active \in BOOLEAN :
              SetSubscriberActive(id, active) => SetActiveEffect(id, active)]_vars

\* a subscriber id registered for both event types was paused in both lists
C27_Witness ==
    /\ em.op = "setSubscriberActive"
    /\ \E id \in ExplicitIds :
          \A t \in EventTypes :
              /\ t \in DOMAIN em.subscribers
              /\ FindId(em.subscribers[t], id) # 0
              /\ ~em.subscribers[t][FindId(em.subscribers[t], id)].active

(***************************************************************************)
(* C24: when a callback raises an exception during a dispatch, every later  *)
(* active subscriber of the event is still invoked, the exception does not  *)
(* reach the caller of publishImmediate, and the loop of processEvents goes *)
(* on: the call returns the number of events it took and leaves the guard   *)
(* against nested calls open.                                               *)
(***************************************************************************)
Allowed(eventFilters, eventType) ==
    eventFilters = <<>> \/ eventType \in Range(eventFilters)

C24_FaultContained ==
    [][/\ (em'.op = "publishImmediate" /\ em'.arg # 0) =>
             /\ em'.raised = ""
             /\ \A ev \in NewEvents(em) \ {NullEvent} :
                   (PublishImmediate(ev) /\ Allowed(em.eventFilters, ev.type))
                       => InvokesCurrentEntries(ev)
       /\ em'.op = "processEvents" =>
             /\ em'.raised = ""
             /\ ~em'.processingEvents
             /\ em'.ret = Len(em'.taken)
             /\ \A k \in 1..Len(em'.taken) :
                   Allowed(em.eventFilters, em.eventQueue[k].type)
                       => InvokesCurrentEntries(em.eventQueue[k])]_vars

(***************************************************************************)
(* C25: with a non-empty allow-list an event whose type is not in the list  *)
(* reaches no subscriber, through publishImmediate or processEvents; an     *)
(* event whose type is in the list, and every event when the list is empty, *)
(* is delivered to the active subscribers of its type in list order (up to  *)
(* a callback whose exception leaves the dispatch).                         *)
(***************************************************************************)
DeliveredNormally(event) ==
    LET entries == ActiveOf(MapGet(em.subscribers, event.type, <<>>))
        made == CallsFor(em', event.uid)
    IN  /\ Len(made) <= Len(entries)
        /\ entries # <<>> => made # <<>>
        /\ \A i \in 1..Len(made) :
              /\ made[i].subscriberId = entries[i].subscriberId
              /\ made[i].callback = entries[i].callback
        /\ Len(made) < Len(entries) => made[Len(made)].callback = "throwOther"

FilterEffect(event) ==
    IF Allowed(em.eventFilters, event.type) THEN DeliveredNormally(event)
    ELSE CallsFor(em', event.uid) = <<>>

C25_AllowList ==
    [][/\ (em'.op = "publishImmediate" /\ em'.arg # 0) =>
             \A ev \in NewEvents(em) \ {NullEvent} :
                 PublishImmediate(ev) => FilterEffect(ev)
       /\ em'.op = "processEvents" =>
             \A k \in 1..Len(em'.taken) :
                 /\ em'.taken[k] = em.eventQueue[k].uid
                 /\ FilterEffect(em.eventQueue[k])]_vars

\* the only event so far, of a type with a subscriber, was published
\* immediately while the allow-list named the other type: no callback ran
C25_Witness ==
    /\ em.op = "publishImmediate"
    /\ em.arg = 1 /\ em.created = 1
    /\ em.eventCounts = ("A" :> 1)
    /\ em.eventFilters = <<"B">>
    /\ "A" \in DOMAIN em.subscribers
    /\ em.calls = <<>>

(***************************************************************************)
(* C26: the statistics count of a type is the number of non-null events of  *)
(* that type handed to publishImmediate plus the number of events of that   *)
(* type processEvents took off the queue since the last resetStatistics,    *)
(* whatever subscribers the event reached; an event dropped by a full queue *)
(* is not counted.                                                          *)
(***************************************************************************)
C26_Statistics ==
    /\ \A t \in EventTypes : MapGet(em.eventCounts, t, 0) = MapGet(em.observed, t, 0)
    /\ DOMAIN em.eventCounts \subseteq EventTypes

\* processEvents took one event of a type the allow-list keeps from its
\* subscriber; it is the second event of that type counted
C26_Witness ==
    /\ em.op = "processEvents"
    /\ Len(em.taken) = 1
    /\ em.calls = <<>>
    /\ em.eventFilters = <<"B">>
    /\ "A" \in DOMAIN em.subscribers
    /\ em.eventCounts = ("A" :> 2)

(***************************************************************************)
(* C28: publishBatch appends the non-null events of the batch in batch      *)
(* order while the queue is below capacity and drops every event from the   *)
(* first that finds it full; the queue never holds more than maxQueueSize   *)
(* events; the events of one batch are appended next to each other, with no *)
(* event of another thread's publish between them.                          *)
(***************************************************************************)
BatchAppended(queue, batch, capacity) ==
    LET events == SelectSeq(batch, LAMBDA x : x # NullEvent)
        room == capacity - Len(queue)
        n == IF room < Len(events) THEN room ELSE Len(events)
    IN  queue \o SubSeq(events, 1, n)

C28_BatchContiguous ==
    [][/\ Len(em'.eventQueue) <= em'.maxQueueSize
       /\ \A t \in Threads :
             (em.thread[t].pc = "batchBody" /\ em'.thread[t].pc # "batchBody")
                 => em'.eventQueue = BatchAppended(em.eventQueue, em.thread[t].batch,
                                                   em.maxQueueSize)]_vars

\* a publish call made after the batch was built put its event in first; the
\* batch then found room for its first event only
C28_Witness ==
    /\ Uids(em.eventQueue) = <<3, 1>>
    /\ em.acceptedUids = {1, 3}
    /\ \A t \in Threads : em.thread[t].pc = IdleThread.pc

(***************************************************************************)
(* C29: a processEvents call with maxEvents > 0 ends after dispatching at   *)
(* most maxEvents events and returns the number it dispatched; it stops     *)
(* short of maxEvents only on an empty queue, also when callbacks publish   *)
(* during the call; the events it did not take stay queued in their order,  *)
(* before the events published during the call.                             *)
(***************************************************************************)
IsPrefix(u, v) == Len(u) <= Len(v) /\ SubSeq(v, 1, Len(u)) = u

DispatchedUids(e) ==
    {e.calls[i].uid : i \in 1..Len(e.calls)}

C29_BudgetedProcessing ==
    [][(em'.op = "processEvents" /\ em'.arg > 0) =>
          /\ em'.ret = Len(em'.taken)
          /\ em'.ret <= em'.arg
          /\ em'.ret = em'.arg \/ em'.eventQueue = <<>>
          /\ IsPrefix(Uids(em.eventQueue), em'.taken \o Uids(em'.eventQueue))
          /\ Increasing(em'.taken \o Uids(em'.eventQueue))
          /\ DispatchedUids(em') \subseteq Range(em'.taken)
          /\ ~em'.processingEvents]_vars

\* a call with budget 1 dispatched one event to a callback that published
\* another one, which stays queued
C29_Witness ==
    /\ em.op = "processEvents"
    /\ em.arg = 1 /\ em.ret = 1
    /\ em.eventQueue # <<>>
    /\ \E i \in 1..Len(em.calls) : em.calls[i].callback = "publish"
    /\ Uids(em.eventQueue) = <<2>>
    /\ em.taken = <<1>>

(***************************************************************************)
(* C30: setInitialState(S) changes nothing and calls no hook when a state   *)
(* is current or S is null (the current state, the stack and the pending    *)
(* request stay as they were); otherwise S is the current state when the    *)
(* call returns and its enter() was called during the call, before any      *)
(* other hook.                                                              *)
(***************************************************************************)
\* the state object given to the call that made this step (NoState: null);
\* objects constructed by its enter() hook come after it
GivenState == IF sm'.allocated = sm.allocated THEN NoState ELSE sm.allocated + 1

C30_InitialState ==
    [][sm'.op = "setInitialState" =>
          IF sm.currentState # NoState \/ GivenState = NoState
          THEN /\ sm'.currentState = sm.currentState
               /\ sm'.stateStack = sm.stateStack
               /\ sm'.nextState = sm.nextState
               /\ sm'.shouldChangeState = sm.shouldChangeState
               /\ sm'.shouldPushState = sm.shouldPushState
               /\ sm'.shouldPopState = sm.shouldPopState
               /\ sm'.trace = <<>>
               /\ sm'.enterCount = sm.enterCount
               /\ sm'.exitCount = sm.exitCount
          ELSE /\ sm'.currentState = GivenState
               /\ sm'.stateStack = sm.stateStack
               /\ sm'.trace # <<>> /\ sm'.trace[1] = <<"enter", GivenState>>
               /\ sm'.enterCount[GivenState] = 1
               /\ sm'.exitCount = sm.exitCount]_vars

\* a call that found a state current, with a change pending, and gave a
\* third object, which was not entered
C30_Witness ==
    /\ sm.op = "setInitialState"
    /\ sm.allocated = 3
    /\ sm.currentState = 1
    /\ sm.nextState = 2 /\ sm.shouldChangeState
    /\ sm.enterCount[3] = 0
    /\ sm.trace = <<>>

(***************************************************************************)
(* C31: when the update() hook of the current state raises an exception,    *)
(* update catches it and returns normally, and leaves the controller as an  *)
(* update with a quiet hook would: the same current state, stack and        *)
(* pending request, so that later calls behave as if nothing had happened.  *)
(***************************************************************************)
Control(s) ==
    <<s.currentState, s.stateStack, s.nextState,
      s.shouldChangeState, s.shouldPushState, s.shouldPopState>>

C31_UpdateFaultContained ==
    [][sm'.op = "update" =>
          \A sc \in FaultScripts :
              (sm.currentState # NoState /\ Update(sc))
                  => /\ sm'.raised = ""
                     /\ Control(sm') = Control(update(Begin(sm, "update"), QuietScript))]_vars

(***************************************************************************)
(* C32: update, render and handleInput are forwarded to the current state   *)
(* only; a state suspended on the stack receives no update, render,         *)
(* handleInput, enter or exit call while it is suspended; and with no       *)
(* current state render and handleInput call no hook.  (Calls made on a     *)
(* live controller: the destructor takes each state off the stack before    *)
(* it calls its exit().)                                                    *)
(***************************************************************************)
\* the state that is current before position k of the trace of a call made
\* in state s
RECURSIVE CurrentBefore(_, _, _)
CurrentBefore(s, tr, k) ==
    IF k <= 1 THEN s.currentState
    ELSE IF tr[k - 1][1] \in {"change", "push", "pop"} THEN tr[k - 1][2]
    ELSE CurrentBefore(s, tr, k - 1)

\* the suspension stack before position k of the trace of a call made in s
RECURSIVE SuspendedBefore(_, _, _)
SuspendedBefore(s, tr, k) ==
    IF k <= 1 THEN s.stateStack
    ELSE LET before == SuspendedBefore(s, tr, k - 1)
             current == CurrentBefore(s, tr, k - 1)
         IN  CASE tr[k - 1][1] = "push" /\ current # NoState -> Append(before, current)
               [] tr[k - 1][1] = "pop" -> SubSeq(before, 1, Len(before) - 1)
               [] OTHER -> before

Members(stack) == {stack[i] : i \in 1..Len(stack)}

C32_ForwardedToCurrentOnly ==
    [][sm'.op \in {"setInitialState", "changeState", "pushState", "popState",
                   "update", "render", "handleInput"}
        => LET tr == sm'.trace
           IN  /\ \A k \in 1..Len(tr) :
                     tr[k][1] \in GameStateHooks
                         => /\ tr[k][2] \notin Members(SuspendedBefore(sm, tr, k))
                            /\ tr[k][1] \in {"update", "render", "handleInput"}
                                  => /\ tr[k][2] = CurrentBefore(sm, tr, k)
                                     /\ tr[k][1] = sm'.op
               /\ \A id \in Members(sm.stateStack) \cap Members(sm'.stateStack) :
                     /\ \A k \in 1..Len(tr) : tr[k][2] # id
                     /\ sm'.enterCount[id] = sm.enterCount[id]
                     /\ sm'.exitCount[id] = sm.exitCount[id]
               /\ SuspendedBefore(sm, tr, Len(tr) + 1) = sm'.stateStack
               /\ (sm.currentState = NoState /\ sm'.op \in {"render", "handleInput"})
                     => tr = <<>>]_vars

\* an update made with one state suspended and another current: the current
\* one was updated, the suspended one stayed on the stack
C32_Witness ==
    /\ sm.op = "update"
    /\ sm.stateStack = <<1>>
    /\ sm.currentState = 2
    /\ sm.trace = <<<<"update", 2>>>>

(***************************************************************************)
(* C33: once a current state exists, a current state exists after every     *)
(* later operation of the controller (hasCurrentState() never goes from     *)
(* true back to false), and whenever the suspension stack is non-empty a    *)
(* current state exists.                                                    *)
(***************************************************************************)
hasCurrentState(s) == s.currentState # NoState

C33_NeverBackToAbsent ==
    /\ [](sm.stateStack # <<>> => hasCurrentState(sm))
    /\ [][(Alive(sm') /\ hasCurrentState(sm)) => hasCurrentState(sm')]_vars

\* an update has applied a pop while two states were suspended: the upper
\* one is current again and the lower one is still on the stack
C33_Witness ==
    /\ sm.op = "update"
    /\ Performed(sm, "pop")
    /\ sm.stateStack = <<1>>
    /\ sm.currentState = 2
    /\ sm.exitCount[3] = 1

(***************************************************************************)
(* C34: the controller leaves the situation with no current state only      *)
(* through setInitialState: on a controller with no current state,          *)
(* changeState or pushState followed by update makes no state current.      *)
(***************************************************************************)
C34_AbsentOnlyLeftByInitial ==
    [][(~hasCurrentState(sm) /\ hasCurrentState(sm')) => sm'.op = "setInitialState"]_vars

(***************************************************************************)
(* C35: changeState(null) and pushState(null) record nothing as pending,    *)
(* and popState called while the suspension stack is empty records no       *)
(* pending pop; so, when nothing else was pending, the next update changes  *)
(* neither the current state nor the stack and calls no enter() or exit().  *)
(***************************************************************************)
\* the step is a request that the code treats as a usage error
UsageError ==
    \/ sm'.op \in {"changeState", "pushState"} /\ sm'.allocated = sm.allocated
    \/ sm'.op = "popState" /\ sm.stateStack = <<>>

C35_UsageErrorsAreNoOps ==
    [][UsageError
        => /\ Control(sm') = Control(sm)
           /\ sm'.accepted = sm.accepted
           /\ sm'.popAccepted = sm.popAccepted
           /\ sm'.trace = <<>>
           /\ NothingPending(sm)
                 => \A sc \in UpdateScripts :
                       LET next == update(Begin(sm', "update"), sc)
                       IN  /\ next.currentState = sm.currentState
                           /\ next.stateStack = sm.stateStack
                           /\ \A k \in 1..Len(next.trace) :
                                 next.trace[k][1] \notin {"enter", "exit"}]_vars

\* popState has been called with a state current and nothing suspended, and
\* no pop is pending
C35_Witness ==
    /\ sm.op = "popState"
    /\ sm.currentState = 1
    /\ sm.stateStack = <<>>
    /\ NothingPending(sm)

(***************************************************************************)
(* C36: after any sequence of publish, publishBatch, processEvents,         *)
(* clearEventQueue and setMaxQueueSize calls, getQueueSize() does not       *)
(* exceed the maximum queue size in force.                                  *)
(***************************************************************************)
C36_QueueWithinMaximum == getQueueSize(em) <= em.maxQueueSize

(***************************************************************************)
(* C37: for any interleaving of processEvents calls made by several         *)
(* threads, at most one call is inside the dequeue-and-dispatch loop at a   *)
(* time, and processingEvents is true exactly while such a call is in       *)
(* progress: true whenever a call is inside the loop, and true only while   *)
(* a call that passed the test of the flag has not yet returned.            *)
(***************************************************************************)
\* thread t is in a processEvents call that has passed the test of the flag
PassedGuard(t) ==
    /\ em.thread[t].op = "processEvents"
    /\ em.thread[t].pc \notin {"idle", "guardRead"}

\* thread t is between the write of true and the write of false
InsideLoop(t) ==
    /\ PassedGuard(t)
    /\ em.thread[t].pc \notin {"guardWrite", "guardClear"}

C37_GuardExact ==
    /\ Cardinality({t \in Threads : InsideLoop(t)}) <= 1
    /\ (\E t \in Threads : InsideLoop(t)) => em.processingEvents
    /\ em.processingEvents => \E t \in Threads : PassedGuard(t)

(***************************************************************************)
(* C38: a dispatch pass delivers to exactly the subscribers that were in    *)
(* the event type's list when the pass copied it.  The list of a pass is    *)
(* the registry's list at the moment of the copy and does not change while  *)
(* the pass runs, whatever is subscribed or unsubscribed meanwhile; the     *)
(* pass reaches its entries one after the other and invokes each one whose  *)
(* active flag is set, whether or not the registry still holds it - so a    *)
(* callback can run after unsubscribe for it has returned true, and a       *)
(* subscriber registered during the pass is not invoked in it.              *)
(***************************************************************************)
\* the thread whose locals are l is between the copy and the end of the pass
InPass(l) == l.pc \in {"check", "invoke"} \/ l.back = "check"

Registered(e) == MapGet(e.subscribers, ThreadType, <<>>)

C38_PassOverSnapshot ==
    [][\A t \in Threads :
          LET l == em.thread[t]
              after == em'.thread[t]
          IN  /\ (l.pc = "copyBody" /\ after # l)
                    => after.copy = Registered(em) /\ after.i = 1 /\ after.pc = "check"
              /\ (InPass(l) /\ InPass(after)) => after.copy = l.copy
              /\ (l.pc = "check" /\ after # l /\ l.i <= Len(l.copy))
                    => IF ActiveFlag(em, l.copy[l.i])
                       THEN after.pc = "invoke" /\ after.i = l.i
                       ELSE after.pc = "check" /\ after.i = l.i + 1
              /\ (after.pc = "invoke" /\ l.pc # "invoke")
                    => l.pc = "check" /\ after.i \in 1..Len(l.copy)
              /\ (InPass(l) /\ InPass(after) /\ after.i # l.i)
                    => after.i = l.i + 1 /\ after.pc = "check"]_vars

\* a pass is about to invoke the callback of a subscriber that it copied and
\* that has been unsubscribed since: the registry no longer holds its id
C38_Witness ==
    \E t \in Threads :
        LET l == em.thread[t]
        IN  /\ l.pc = "invoke"
            /\ FindId(Registered(em), l.copy[l.i].subscriberId) = 0

(***************************************************************************)
(* C39: removeEventFilter(t) undoes addEventFilter(t) however many times t  *)
(* was added: after the call t is not on the allow-list any more, so that   *)
(* add, add, remove on an empty allow-list leaves no filtering.             *)
(***************************************************************************)
C39_RemoveUndoesAdd ==
    [][em'.op = "removeEventFilter"
        => \A t \in EventTypes :
              RemoveEventFilter(t) => \A k \in 1..Len(em'.eventFilters) :
                                          em'.eventFilters[k] # t]_vars

(***************************************************************************)
(* C40: the veto of the current state's canTransition() protects it         *)
(* against every kind of transition: when canTransition() answers false at  *)
(* the time of a changeState, pushState, popState or auto-transition        *)
(* request, and no other kind of request is pending, the update that        *)
(* follows leaves the same state current and does not call its exit().      *)
(***************************************************************************)
\* the last call made a request while the current state's canTransition()
\* answered false, and no request of another kind is pending
VetoedRequest(s) ==
    /\ s.currentState # NoState
    /\ ~s.can
    /\ \/ s.op = "changeState" /\ s.arg # NoState /\ NothingPending(s)
       \/ s.op = "update" /\ s.arg # NoState /\ NothingPending(s)
       \/ s.op = "pushState" /\ s.arg # NoState
             /\ ~s.shouldChangeState /\ ~s.shouldPopState
       \/ s.op = "popState" /\ s.stateStack # <<>>
             /\ ~s.shouldChangeState /\ ~s.shouldPushState

C40_VetoProtectsCurrent ==
    [][(VetoedRequest(sm) /\ sm'.op = "update")
        => /\ sm'.currentState = sm.currentState
           /\ sm'.exitCount[sm.currentState] = sm.exitCount[sm.currentState]]_vars

====
